---- MODULE Spec2Model ----
(***************************************************************************)
(* VelocityCSO: the interrogation / clarification state machine of        *)
(* src/src/index.ts, the session store of                                 *)
(* src/src/services/sessionService.ts and the information-density scorer  *)
(* of src/src/agents/interrogator.ts.                                     *)
(*                                                                         *)
(* A context is a sequence of words.  A request handler is cut at its      *)
(* awaits on the session store and on the reasoning provider; the code     *)
(* between two awaits is local to the request and is part of the step      *)
(* that ends at the next await.                                            *)
(***************************************************************************)
EXTENDS Integers, Sequences, FiniteSets, TLC

\* ---------------------------------------------------------------- bounds
\* turnCount is not incremented beyond this value
MaxTurn == 4
\* report documents are not written beyond this number
MaxReports == 1

\* ------------------------------------------------------- program constants
SESSION_TTL_MS == 1
TURN_LIMIT == 3
AUDIT_THRESHOLD == 70
STATE_LOCK_SCORE == 50
LOCATION_POINTS == 30
COMPETITOR_POINTS == 30
MOAT_POINTS == 40
FALLBACK_SCORE == 20
MAX_SCORE == 100

LENSES == <<"CUSTOMER/MARKET", "COMPETITOR/MOAT", "OPERATIONS/SUPPLY">>
Lens == {LENSES[i] : i \in DOMAIN LENSES}

\* the text `\n\n[USER CLARIFICATION]: ` that joins context and clarification
CLARIFICATION_MARK == "[USER CLARIFICATION]:"
FALLBACK_QUESTION == "What makes your business hard for a well-funded competitor to copy in the next 12 months?"

\* ------------------------------------------------------------- sequences
Range(s) == {s[i] : i \in DOMAIN s}

IsPrefix(s, t) == Len(s) <= Len(t) /\ SubSeq(t, 1, Len(s)) = s

\* [...new Set(s)]: the first occurrence of each element, in order
RECURSIVE Dedupe(_)
Dedupe(s) ==
    IF s = <<>> THEN <<>>
    ELSE LET front == Dedupe(SubSeq(s, 1, Len(s) - 1))
             last == s[Len(s)]
         IN IF last \in Range(front) THEN front ELSE Append(front, last)

\* ---------------------------------------------------- keyword signals
\* /\b(...)\b/i : a word of the list, in any case
LOCATION_KEYWORDS == {"India", "india", "city", "City"}
\* /\b(...)\b/ without the i flag: "rival" matches, "Rival" does not
COMPETITOR_KEYWORDS == {"rival", "competitor", "Oracle"}
\* /\b(...)\b/i
MOAT_KEYWORDS == {"patent", "Patent", "exclusive", "Exclusive"}

RegexTest(keywords, context) == \E i \in DOMAIN context : context[i] \in keywords

\* [A-Z][a-z]+\s+(Inc|Corp|Ltd|LLC|SaaS|AI|Tech): a capitalised word followed
\* by one of the company suffixes
CAPITALISED == {"India", "City", "Oracle", "Patent", "Exclusive", "Grocery",
                "Koramangala", "Reliance", "Smart"}
COMPANY_SUFFIXES == {"Inc", "Corp", "Ltd", "LLC", "SaaS", "AI", "Tech"}

CompetitorTest(context) ==
    \/ RegexTest(COMPETITOR_KEYWORDS, context)
    \/ \E i \in 1..(Len(context) - 1) :
          context[i] \in CAPITALISED /\ context[i + 1] \in COMPANY_SUFFIXES

\* the advantage signal weighted like the other two
scoreContextDeterministically_FlatWeights(context) ==
    LET loc == RegexTest(LOCATION_KEYWORDS, context)
        comp == CompetitorTest(context)
        moat == RegexTest(MOAT_KEYWORDS, context)
        s1 == IF loc THEN LOCATION_POINTS ELSE 0
        s2 == IF comp THEN s1 + COMPETITOR_POINTS ELSE s1
        s3 == IF moat THEN s2 + COMPETITOR_POINTS ELSE s2
        c1 == IF loc THEN <<LENSES[1]>> ELSE <<>>
        c2 == IF comp THEN Append(c1, LENSES[2]) ELSE c1
        c3 == IF moat THEN Append(c2, LENSES[3]) ELSE c2
    IN [score |-> s3, coveredLenses |-> c3]

scoreContextDeterministically(context) ==
    LET loc == RegexTest(LOCATION_KEYWORDS, context)
        comp == CompetitorTest(context)
        moat == RegexTest(MOAT_KEYWORDS, context)
        s1 == IF loc THEN LOCATION_POINTS ELSE 0
        s2 == IF comp THEN s1 + COMPETITOR_POINTS ELSE s1
        s3 == IF moat THEN s2 + MOAT_POINTS ELSE s2
        c1 == IF loc THEN <<LENSES[1]>> ELSE <<>>
        c2 == IF comp THEN Append(c1, LENSES[2]) ELSE c1
        c3 == IF moat THEN Append(c2, LENSES[3]) ELSE c2
    IN [score |-> s3, coveredLenses |-> c3]

\* LENSES.find(l => !usedLenses.includes(l)) || 'CUSTOMER/MARKET'
nextLens(usedLenses) ==
    IF \E i \in DOMAIN LENSES : LENSES[i] \notin Range(usedLenses)
    THEN LENSES[CHOOSE i \in DOMAIN LENSES :
                    /\ LENSES[i] \notin Range(usedLenses)
                    /\ \A j \in 1..(i - 1) : LENSES[j] \in Range(usedLenses)]
    ELSE LENSES[1]

Max(a, b) == IF a >= b THEN a ELSE b
Min(a, b) == IF a <= b THEN a ELSE b

\* ------------------------------------------------ reasoning provider
\* What the interrogator's provider call can return: text without a JSON
\* object, text whose {...} block does not parse, or a JSON object whose
\* fields may be missing (hasScore = FALSE, "" and <<>>).
Reply(kind, aud, has, score, lens, q, sc) ==
    [kind |-> kind, is_auditable |-> aud, hasScore |-> has, id_score |-> score,
     lens_used |-> lens, question |-> q, strategy_context |-> sc]

NoReply == Reply("prose", FALSE, FALSE, 0, "", "", <<>>)

\* the result of evaluateInformationDensity, with what the call did:
\* path tells the return statement taken, providerCalled whether the LlmAgent
\* ran and activeLens the lens of its instruction ("" when it did not run)
Result(cat, q, aud, sc, score, lens, path, called, active) ==
    [category |-> cat, question |-> q, isAuditable |-> aud, strategyContext |-> sc,
     idScore |-> score, lensUsed |-> lens,
     path |-> path, providerCalled |-> called, activeLens |-> active]

\* the turn limit compared with > instead of >=
TurnLimitReached_Strict(turnCount) == turnCount > TURN_LIMIT

\* the turn limit never applied
TurnLimitReached_Off(turnCount) == FALSE

TurnLimitReached(turnCount) == turnCount >= TURN_LIMIT

PreScorePassed(score) == score >= AUDIT_THRESHOLD

\* two covered lenses force the audit whatever the pre-score
StateLock_NoScore(effectiveUsedLenses, score) == Len(effectiveUsedLenses) >= 2

StateLock(effectiveUsedLenses, score) ==
    \/ Len(effectiveUsedLenses) >= 3
    \/ (Len(effectiveUsedLenses) = 2 /\ score >= STATE_LOCK_SCORE)

\* the fallback of a response without a parseable JSON object taken for an audit
ParseReply_FallbackAuditable(groundedContext, effectiveUsedLenses, reply) ==
    IF reply.kind = "json"
    THEN LET raw == IF reply.hasScore /\ reply.id_score # 0 THEN reply.id_score ELSE 0
             idScore == Min(MAX_SCORE, raw)
             isAuditable == \/ reply.is_auditable
                            \/ idScore >= AUDIT_THRESHOLD
                            \/ (Len(effectiveUsedLenses) = 2 /\ idScore >= STATE_LOCK_SCORE)
         IN Result("provider", reply.question, isAuditable,
                   IF reply.strategy_context # <<>> THEN reply.strategy_context
                                                    ELSE groundedContext,
                   idScore, reply.lens_used, "provider", TRUE,
                   nextLens(effectiveUsedLenses))
    ELSE Result("Unknown", "", TRUE, groundedContext,
                AUDIT_THRESHOLD, "", "fallback", TRUE, nextLens(effectiveUsedLenses))

\* the category is p.category || 'Unknown'; its text is written "provider" here
ParseReply(groundedContext, effectiveUsedLenses, reply) ==
    IF reply.kind = "json"
    THEN LET raw == IF reply.hasScore /\ reply.id_score # 0 THEN reply.id_score ELSE 0
             idScore == Min(MAX_SCORE, raw)
             isAuditable == \/ reply.is_auditable
                            \/ idScore >= AUDIT_THRESHOLD
                            \/ (Len(effectiveUsedLenses) = 2 /\ idScore >= STATE_LOCK_SCORE)
         IN Result("provider", reply.question, isAuditable,
                   IF reply.strategy_context # <<>> THEN reply.strategy_context
                                                    ELSE groundedContext,
                   idScore, reply.lens_used, "provider", TRUE,
                   nextLens(effectiveUsedLenses))
    ELSE Result("Unknown", FALLBACK_QUESTION, FALSE, groundedContext,
                FALLBACK_SCORE, "", "fallback", TRUE, nextLens(effectiveUsedLenses))

evaluateInformationDensity(groundedContext, turnCount, usedLenses, reply) ==
    LET preScore == scoreContextDeterministically(groundedContext)
        effectiveUsedLenses == Dedupe(usedLenses \o preScore.coveredLenses)
    IN IF TurnLimitReached(turnCount)
       THEN Result("Unknown", "", TRUE, groundedContext, AUDIT_THRESHOLD, "",
                   "turn_limit", FALSE, "")
       ELSE IF PreScorePassed(preScore.score)
       THEN Result("B2B SaaS", "", TRUE, groundedContext, preScore.score, "",
                   "pre_score", FALSE, "")
       ELSE IF StateLock(effectiveUsedLenses, preScore.score)
       THEN Result("Strategic Business", "", TRUE, groundedContext,
                   Max(AUDIT_THRESHOLD, preScore.score), "", "state_lock", FALSE, "")
       ELSE ParseReply(groundedContext, effectiveUsedLenses, reply)

\* --------------------------------------------------------- session store
\* A document of the collection velocity_cso_sessions, or NoSession
NoSession == [exists |-> FALSE]

saveSession(store, sessionId, data, time) ==
    [store EXCEPT ![sessionId] =
        [exists |-> TRUE,
         originalContext |-> data.originalContext,
         enrichedContext |-> data.enrichedContext,
         discoveryFindings |-> data.discoveryFindings,
         gaps |-> data.gaps,
         turnCount |-> data.turnCount,
         usedLenses |-> data.usedLenses,
         processing |-> FALSE,
         expiresAt |-> time + SESSION_TTL_MS]]

\* the transaction without its test of the processing flag
CanTakeLock_NoLockCheck(doc) == doc.exists

\* the transaction of incrementTurn ran and can take the lock
CanTakeLock(doc) == doc.exists /\ ~doc.processing

\* the value the transaction returns: null, or the new turn count and lenses
NullTurn == [ok |-> FALSE]

incrementTurnResult(store, sessionId) ==
    LET doc == store[sessionId]
    IN IF CanTakeLock(doc)
       THEN [ok |-> TRUE, turnCount |-> doc.turnCount + 1, usedLenses |-> doc.usedLenses]
       ELSE NullTurn

\* the transaction without the increment of turnCount
incrementTurn_NoCount(store, sessionId, enrichedContext, gaps) ==
    LET doc == store[sessionId]
    IN IF doc.exists /\ ~doc.processing
       THEN [store EXCEPT ![sessionId] =
                [doc EXCEPT !.enrichedContext = enrichedContext,
                            !.gaps = gaps,
                            !.processing = TRUE]]
       ELSE store

\* the document after the transaction (lensUsed is never passed by a caller)
incrementTurn(store, sessionId, enrichedContext, gaps) ==
    LET doc == store[sessionId]
    IN IF CanTakeLock(doc)
       THEN [store EXCEPT ![sessionId] =
                [doc EXCEPT !.turnCount = doc.turnCount + 1,
                            !.enrichedContext = enrichedContext,
                            !.gaps = gaps,
                            !.processing = TRUE]]
       ELSE store

\* releaseLock that writes nothing
releaseLock_Noop(store, sessionId) == store

\* update({processing: false}); the update of a missing document throws and
\* the exception is swallowed
releaseLock(store, sessionId) ==
    IF store[sessionId].exists
    THEN [store EXCEPT ![sessionId].processing = FALSE]
    ELSE store

Expired(doc, time) == time > doc.expiresAt

\* what getSession returns: the document, or NoSession for null
getSessionResult(store, sessionId, time) ==
    IF store[sessionId].exists /\ ~Expired(store[sessionId], time)
    THEN store[sessionId]
    ELSE NoSession

\* the store after getSession: an expired document is deleted
getSession(store, sessionId, time) ==
    IF store[sessionId].exists /\ Expired(store[sessionId], time)
    THEN [store EXCEPT ![sessionId] = NoSession]
    ELSE store

\* deleteSession that leaves the document in the store
deleteSession_Keep(store, sessionId) == store

deleteSession(store, sessionId) == [store EXCEPT ![sessionId] = NoSession]

\* update({usedLenses}) of POST /analyze/clarify, its exception swallowed
updateUsedLenses(store, sessionId, updatedLenses) ==
    IF store[sessionId].exists
    THEN [store EXCEPT ![sessionId].usedLenses = updatedLenses]
    ELSE store

\* `${session.originalContext || session.enrichedContext}\n\n[USER CLARIFICATION]: ${clarification}`
cumulativeContext(session, clarification) ==
    (IF session.originalContext # <<>> THEN session.originalContext
                                       ELSE session.enrichedContext)
        \o <<CLARIFICATION_MARK>> \o clarification

\* ------------------------------------------------------ discovery sweep
\* What the discovery provider can return: text that JSON.parse rejects
\* ("prose", "badjson", also valid JSON that is not an object), or a JSON
\* object.  raw is the text itself, <<>> when the provider returned no text;
\* a missing field is <<>> (findings, gaps) or "missing" (is_complete, which
\* is otherwise "true" or "false").
DiscoveryReply(kind, raw, findings, gaps, complete) ==
    [kind |-> kind, raw |-> raw, findings |-> findings, gaps |-> gaps,
     is_complete |-> complete]

\* what discover gives its caller: a result, or (threw) an exception
DiscoveryResult(findings, gaps, isComplete) ==
    [threw |-> FALSE, findings |-> findings, gaps |-> gaps, isComplete |-> isComplete]

NoDiscovery == [threw |-> FALSE, findings |-> <<>>, gaps |-> <<>>, isComplete |-> FALSE,
                none |-> TRUE]

\* discover with JSON.parse outside a try block
discover_NoCatch(reply) ==
    IF reply.kind = "json"
    THEN DiscoveryResult(IF reply.findings # <<>> THEN reply.findings ELSE reply.raw,
                         reply.gaps,
                         reply.is_complete # "false")
    ELSE [DiscoveryResult(<<>>, <<>>, FALSE) EXCEPT !.threw = TRUE]

\* the try / catch of discover around JSON.parse
discover(reply) ==
    IF reply.kind = "json"
    THEN DiscoveryResult(IF reply.findings # <<>> THEN reply.findings ELSE reply.raw,
                         reply.gaps,
                         reply.is_complete # "false")
    ELSE DiscoveryResult(reply.raw, <<>>, TRUE)

\* discovery.gaps.slice(0, 2).join('. '), as the gaps joined
GapOf(discovery) == SubSeq(discovery.gaps, 1, Min(2, Len(discovery.gaps)))

evaluateCompleteness(discovery) ==
    IF discovery.isComplete \/ Len(discovery.gaps) = 0
    THEN [proceed |-> TRUE, gap |-> <<>>]
    ELSE [proceed |-> FALSE, gap |-> GapOf(discovery)]

DISCOVERY_MARK == "--- DISCOVERY INTELLIGENCE ---"

\* the context POST /analyze hands to cso.analyze
enrichedContextOf(business_context, discoveryResult) ==
    IF discoveryResult.findings # <<>>
    THEN business_context \o <<DISCOVERY_MARK>> \o discoveryResult.findings
    ELSE business_context

\* -------------------------------------------------- dimensions, specialists
DIM_NAMES ==
    <<"TAM Viability", "Target Precision", "Trend Adoption",
      "Competitive Defensibility", "Model Innovation", "Flywheel Potential",
      "Pricing Power", "CAC/LTV Ratio", "Market Entry Speed",
      "Execution Speed", "Scalability", "ESG Posture",
      "ROI Projection", "Risk Tolerance", "Capital Efficiency">>

DimNames == Range(DIM_NAMES)

NEUTRAL_SCORE == 50
UNSET_SCORE == 0

specialists ==
    <<"market_analyst", "innovation_analyst", "commercial_analyst",
      "operations_analyst", "finance_analyst">>

Specialists == Range(specialists)

\* the three dimensions the instruction of each specialist asks it to score
OwnedDimensions(agent) ==
    CASE agent = "market_analyst" ->
            {"TAM Viability", "Target Precision", "Trend Adoption"}
      [] agent = "innovation_analyst" ->
            {"Competitive Defensibility", "Model Innovation", "Flywheel Potential"}
      [] agent = "commercial_analyst" ->
            {"Pricing Power", "CAC/LTV Ratio", "Market Entry Speed"}
      [] agent = "operations_analyst" ->
            {"Execution Speed", "Scalability", "ESG Posture"}
      [] agent = "finance_analyst" ->
            {"ROI Projection", "Risk Tolerance", "Capital Efficiency"}

\* What a specialist's provider can return: text without a {...} block
\* ("prose"), a block JSON.parse rejects ("badjson"), or a JSON object whose
\* dimensions are a map from names to scores (the empty map when missing) and
\* whose confidence_score may be missing (hasConfidence = FALSE).
SpecialistReply(kind, dimensions, hasConfidence, confidence) ==
    [kind |-> kind, dimensions |-> dimensions, hasConfidence |-> hasConfidence,
     confidence_score |-> confidence]

\* the object literal `fallback.dimensions` of robustParse
FallbackDimensions == [d \in DimNames |-> NEUTRAL_SCORE]

\* { ...a, ...b } and Object.assign(a, b)
Assign(a, b) ==
    [d \in (DOMAIN a) \cup (DOMAIN b) |-> IF d \in DOMAIN b THEN b[d] ELSE a[d]]

\* robustParse never throws: no block, or a block that does not parse, gives
\* the fallback; a parsed object is laid over the fallback
robustParse(agentName, reply) ==
    IF reply.kind = "json"
    THEN [parsed |-> TRUE,
          dimensions |-> Assign(FallbackDimensions, reply.dimensions),
          confidence_score |-> IF reply.hasConfidence THEN reply.confidence_score
                                                      ELSE NEUTRAL_SCORE]
    ELSE [parsed |-> FALSE,
          dimensions |-> FallbackDimensions,
          confidence_score |-> NEUTRAL_SCORE]

\* the initial finalDimensions of analyze
UnsetDimensions == [d \in DimNames |-> UNSET_SCORE]

\* --------------------------------------------------------------- reports
\* A report text: what it reads as, and the number that follows each
\* dimension name it mentions (what the pattern of extractDimensions finds)
ReportText(text, scores) == [text |-> text, scores |-> scores]

FAILED_REPORT == ReportText("Strategic analysis failed.", <<>>)

\* finalReport || 'Strategic analysis failed.'
reportOf(finalReport) == IF finalReport.text = "" THEN FAILED_REPORT ELSE finalReport

extractDimensions(report) ==
    [d \in (DOMAIN report.scores) \cap DimNames |-> Min(MAX_SCORE, report.scores[d])]

\* A document of enterprise_strategy_reports as loadAuditMemory reads it
NoReport == [exists |-> FALSE]
\* `local-${randomUUID()}`: the id of a report that no document holds
LOCAL_ID == <<"local-uuid", 0>>
NoDocId == <<>>

\* id.slice(-8).  An id is written <<head, tail>>, where tail stands for its
\* last eight characters; the slice of the empty string is empty.
Slice8(id) == IF id = <<>> THEN <<>> ELSE <<id[Len(id)]>>

AuditMemory(businessContext, groundedContext, dimensionScores, report) ==
    [exists |-> TRUE, businessContext |-> businessContext,
     groundedContext |-> groundedContext, dimensionScores |-> dimensionScores,
     report |-> report]

\* ------------------------------------------------------------ the state
VARIABLES
    sessions,       \* the collection velocity_cso_sessions, by session id
    now,            \* Date.now()
    nextId,         \* the session ids POST /analyze has not handed out yet
    req,            \* the requests in progress: position, locals, response
    ncIssued,       \* history: NEED_CLARIFICATION events sent, by session id
    markedCovered,  \* history: lenses marked covered in earlier turns, by session id
    call,           \* arguments of a direct call of evaluateInformationDensity
    ret,            \* its result
    reports         \* the collection enterprise_strategy_reports, by document id

vars == <<sessions, now, nextId, req, ncIssued, markedCovered, call, ret, reports>>

\* the connections on which requests arrive: two can be in progress at a time
Reqs == {"r1", "r2"}
\* the session ids (randomUUID values) that POST /analyze can hand out.  An id
\* is handed out once; sessions share nothing, so one id shows what a session
\* can go through.
SessionIds == {"s1"}
NoId == "none"

\* what callers submit
BusinessContexts == {<<>>, <<"software">>, <<"India", "rival">>}
Clarifications == {<<>>, <<"software">>, <<"rival", "patent">>}

\* what the interrogator's provider answers in the request handlers
HandlerReplies ==
    {NoReply,
     Reply("badjson", FALSE, FALSE, 0, "", "", <<>>),
     Reply("json", FALSE, TRUE, 20, "CUSTOMER/MARKET", "q1", <<>>),
     Reply("json", TRUE, TRUE, 80, "CUSTOMER/MARKET", "", <<"summary">>)}

NoResult == [path |-> "none"]
NoCall == [made |-> FALSE]

\* the document ids Firestore generates for the reports: one for the request
\* that runs turn n of session s (n = 0 for the first submission)
ReportIds == SessionIds \X (0..(MaxTurn + 1))

\* what the discovery provider answers
DiscoveryReplies ==
    {DiscoveryReply("prose", <<"text">>, <<>>, <<>>, "missing"),
     DiscoveryReply("badjson", <<>>, <<>>, <<>>, "missing"),
     DiscoveryReply("json", <<"{json}">>, <<"finding">>, <<>>, "true"),
     DiscoveryReply("json", <<"{json}">>, <<"finding">>, <<"gap1", "gap2", "gap3">>, "false"),
     DiscoveryReply("json", <<"{json}">>, <<>>, <<"gap1">>, "missing")}

\* the answers used where two requests run side by side
HandlerDiscoveryReplies ==
    {DiscoveryReply("json", <<"{json}">>, <<"finding">>, <<"gap1", "gap2", "gap3">>, "false")}

\* the analysis of a request that has not called cso.analyze
NoRun == [phase |-> "none"]
NoReportText == ReportText("", <<>>)

Ev(type) == [type |-> type, message |-> ""]
ErrorEv(message) == [type |-> "ERROR", message |-> message]
ALREADY_PROCESSING == "Request already processing. Please wait."
THROWN == "error.message"

\* the JSON or PDF body of a response, or none sent
NoBody == [sent |-> FALSE]

Idle ==
    [pc |-> "idle", kind |-> "none", sessionId |-> NoId, context |-> <<>>,
     clarification |-> <<>>, session |-> NoSession, turn |-> NullTurn,
     ir |-> NoResult, discovery |-> NoDiscovery, cso |-> NoRun,
     report |-> NoReportText, docId |-> NoDocId, scenarioId |-> "",
     memory |-> NoReport, fault |-> FALSE, status |-> 0, events |-> <<>>,
     body |-> NoBody, token |-> <<>>]

\* the response is complete: the locals of the handler are gone
Finished(r, status, events) ==
    [Idle EXCEPT !.pc = "done", !.kind = r.kind, !.sessionId = r.sessionId,
                 !.fault = r.fault, !.status = status, !.events = events]

\* a call of the request threw: a provider call or a store operation rejected
\* outside a try block of its own
Faulted(r) == [r EXCEPT !.fault = TRUE]

\* REPORT_COMPLETE with the id of the report document, or of no document
ReportEv(id, report, dimensions) ==
    [type |-> "REPORT_COMPLETE", message |-> "", id |-> id, token |-> Slice8(id),
     report |-> report, dimensions |-> dimensions]

Init ==
    /\ sessions = [s \in SessionIds |-> NoSession]
    /\ now = 0
    /\ nextId = SessionIds
    /\ req = [r \in Reqs |-> Idle]
    /\ ncIssued = [s \in SessionIds |-> 0]
    /\ markedCovered = [s \in SessionIds |-> {}]
    /\ call = NoCall
    /\ ret = NoResult
    /\ reports = [id \in ReportIds |-> NoReport]

\* the lenses a turn marks covered: keyword signals and the lens the provider reports
CoveredBy(context, ir) ==
    Range(scoreContextDeterministically(context).coveredLenses)
        \cup (IF ir.lensUsed \in Lens THEN {ir.lensUsed} ELSE {})

\* ------------------------------------------------------- cso.analyze
\* index.ts reads what cso.analyze returns as the text of the report
\* (report.length, report.match); analyze returns that text in the field
\* `report` of its result.  The handlers take that field.

\* the state of one call of a specialist
SpecialistCalls == {"running", "resolved", "rejected"}

\* Promise.all(specialistPromises) resolves: no call is left running or rejected
AllResolved_SomeResolved(calls) == \E a \in DOMAIN calls : calls[a] = "resolved"

AllResolved(calls) == \A a \in DOMAIN calls : calls[a] = "resolved"

\* analyze up to its first await: the five specialist calls are under way
StartRun(businessContext) ==
    [phase |-> "specialists", businessContext |-> businessContext,
     finalDimensions |-> UnsetDimensions, specialistOutputs |-> <<>>,
     calls |-> [a \in Specialists |-> "running"],
     synthesisPrompt |-> <<>>, finalReport |-> NoReportText, rounds |-> 1]

\* the stream of a specialist ends: robustParse, Object.assign into
\* finalDimensions, the result recorded in specialistOutputs
Resolved(cso, agent, reply) ==
    LET result == robustParse(agent, reply)
    IN [cso EXCEPT !.finalDimensions = Assign(@, result.dimensions),
                   !.specialistOutputs = Assign(@, [a \in {agent} |-> result]),
                   !.calls[agent] = "resolved"]

\* createSession or the stream of a specialist rejects
Rejected(cso, agent) == [cso EXCEPT !.calls[agent] = "rejected"]

\* after await Promise.all: the synthesis prompt is made of specialistOutputs
\* and finalDimensions, and the synthesis call starts
Joined(cso) ==
    [cso EXCEPT !.phase = "synthesis",
                !.synthesisPrompt = [analyses |-> DOMAIN cso.specialistOutputs,
                                     scores |-> cso.finalDimensions]]

\* What the synthesis provider can return for a prompt: nothing, text without
\* the score table, or a report that ends with the table of the prompt
SynthesisKinds == {"empty", "prose", "report"}

SynthesisReply(kind, synthesisPrompt) ==
    CASE kind = "empty" -> ReportText("", <<>>)
      [] kind = "prose" -> ReportText("prose", <<>>)
      [] kind = "report" -> ReportText("report", synthesisPrompt.scores)

\* the synthesis stream ends; the moat call starts
Synthesised(cso, kind) ==
    [cso EXCEPT !.phase = "moat",
                !.finalReport = SynthesisReply(kind, cso.synthesisPrompt)]

\* the scores look like defaults only where every one of them is unset
isGeneric_OnlyUnset(finalDimensions) ==
    \A d \in DOMAIN finalDimensions : finalDimensions[d] = UNSET_SCORE

\* Object.values(finalDimensions).every(v => v === 0 || v === 50)
isGeneric(finalDimensions) ==
    \A d \in DOMAIN finalDimensions :
        finalDimensions[d] = UNSET_SCORE \/ finalDimensions[d] = NEUTRAL_SCORE

\* the moat stream ends: the safety receipt check starts the re-audit, or
\* analyze returns
AfterMoat(cso) ==
    IF isGeneric(cso.finalDimensions)
    THEN [cso EXCEPT !.phase = "retry", !.rounds = 2,
                     !.calls = [a \in Specialists |-> "running"]]
    ELSE [cso EXCEPT !.phase = "returned"]

\* a call of the re-audit ends: Object.assign into finalDimensions only
RetryResolved(cso, agent, reply) ==
    [cso EXCEPT !.finalDimensions = Assign(@, robustParse(agent, reply).dimensions),
                !.calls[agent] = "resolved"]

\* the value analyze returns
ResultOf(cso) ==
    [threw |-> FALSE, report |-> reportOf(cso.finalReport),
     dimensions |-> cso.finalDimensions, specialistOutputs |-> cso.specialistOutputs]

AnalyzeThrew == [threw |-> TRUE]

\* What the providers do during one call of analyze: the order in which the
\* specialist calls complete, what each answers (or that it rejects) in the
\* first round and in the re-audit, and what the synthesis and the moat calls do
Rejection == SpecialistReply("reject", <<>>, FALSE, 0)

Behaviour(order, replies, synthesis, moat, retry) ==
    [order |-> order, replies |-> replies, synthesis |-> synthesis, moat |-> moat,
     retry |-> retry]

SomeRejects(replies) == \E a \in DOMAIN replies : replies[a] = Rejection

\* the element of a one-element set; a value bound this way is computed once
The(S) == CHOOSE x \in S : TRUE

\* the calls of a round complete one after the other
RECURSIVE ResolveAll(_, _, _)
ResolveAll(cso, order, replies) ==
    IF order = <<>> THEN cso
    ELSE LET agent == Head(order)
         IN The({ResolveAll(next, Tail(order), replies) :
                    next \in {IF cso.rounds = 1
                              THEN Resolved(cso, agent, replies[agent])
                              ELSE RetryResolved(cso, agent, replies[agent])}})

\* analyze from its call to its return or its throw
analyze(businessContext, behaviour) ==
    IF SomeRejects(behaviour.replies) \/ behaviour.synthesis = "reject"
            \/ behaviour.moat = "reject"
    THEN AnalyzeThrew
    ELSE The({IF checked.phase = "returned" THEN ResultOf(checked)
              ELSE IF SomeRejects(behaviour.retry) THEN AnalyzeThrew
              ELSE ResultOf(ResolveAll(checked, behaviour.order, behaviour.retry)) :
                checked \in
                    {AfterMoat(Synthesised(Joined(first), behaviour.synthesis)) :
                        first \in {ResolveAll(StartRun(businessContext), behaviour.order,
                                              behaviour.replies)}}})

\* the scores a specialist gives to its own three dimensions
OwnScore(agent) == 60 + CHOOSE i \in DOMAIN specialists : specialists[i] = agent

OwnReply(agent) ==
    SpecialistReply("json", [d \in OwnedDimensions(agent) |-> OwnScore(agent)], TRUE, 90)

ProseReply == SpecialistReply("prose", <<>>, FALSE, 0)

AllOwn == [a \in Specialists |-> OwnReply(a)]
AllProse == [a \in Specialists |-> ProseReply]

\* every provider answers as instructed
WellFormed == Behaviour(specialists, AllOwn, "report", "ok", AllOwn)

\* the answers used where two requests run side by side: as instructed, or a
\* call that rejects
HandlerBehaviours ==
    {WellFormed, [WellFormed EXCEPT !.replies["market_analyst"] = Rejection]}

\* the last specialist of `specialists` completes first
LastFirst == <<specialists[5], specialists[1], specialists[2], specialists[3], specialists[4]>>

\* the answers used where one request runs at a time: each specialist in turn
\* unparsable, all of them unparsable in one round or in both, a synthesis
\* without text or without scores, and each call rejecting
RunBehaviours ==
    HandlerBehaviours
        \cup {[WellFormed EXCEPT !.replies[a] = ProseReply] : a \in Specialists}
        \cup {[WellFormed EXCEPT !.order = LastFirst],
              [WellFormed EXCEPT !.replies = AllProse],
              [WellFormed EXCEPT !.replies = AllProse, !.retry = AllProse,
                                 !.synthesis = "empty"],
              [WellFormed EXCEPT !.synthesis = "prose"],
              [WellFormed EXCEPT !.synthesis = "reject"],
              [WellFormed EXCEPT !.moat = "reject"],
              [WellFormed EXCEPT !.replies = AllProse,
                                 !.retry["finance_analyst"] = Rejection]}

\* ------------------------------------------------------- POST /analyze
PostAnalyze(r, business_context, sessionId) ==
    /\ req[r].pc = "idle"
    /\ sessionId \in nextId
    /\ IF business_context = <<>>
       THEN /\ req' = [req EXCEPT ![r] = Finished([Idle EXCEPT !.kind = "analyze"], 400, <<>>)]
            /\ UNCHANGED nextId
       ELSE /\ nextId' = nextId \ {sessionId}
            /\ req' = [req EXCEPT ![r] =
                    [Idle EXCEPT !.pc = "a_interrogate", !.kind = "analyze",
                                 !.sessionId = sessionId, !.context = business_context,
                                 !.status = 200,
                                 !.events = <<Ev("SESSION_INIT"), Ev("INTERROGATOR_START")>>]]
    /\ UNCHANGED <<sessions, now, ncIssued, markedCovered, call, ret, reports>>

AnalyzeInterrogate(r, reply) ==
    /\ req[r].pc = "a_interrogate"
    /\ LET ir == evaluateInformationDensity(req[r].context, 0, <<>>, reply)
           ev == Append(req[r].events, Ev("INTERROGATOR_RESPONSE"))
       IN /\ req' = [req EXCEPT ![r] =
                IF ir.isAuditable
                THEN [@ EXCEPT !.pc = "a_discover", !.ir = ir,
                               !.events = ev \o <<Ev("READY_FOR_AUDIT"), Ev("DISCOVERY_START")>>]
                ELSE [@ EXCEPT !.pc = "a_saveSession", !.ir = ir, !.events = ev]]
          /\ markedCovered' = [markedCovered EXCEPT ![req[r].sessionId] =
                                    @ \cup CoveredBy(req[r].context, ir)]
    /\ UNCHANGED <<sessions, now, nextId, ncIssued, call, ret, reports>>

\* catch (error) of POST /analyze: ERROR, end
AnalyzeCatch(r) == Finished(r, 200, Append(r.events, ErrorEv(THROWN)))

\* the provider call of the interrogator rejects: the catch block of the handler
AnalyzeInterrogateThrows(r) ==
    /\ req[r].pc = "a_interrogate"
    /\ evaluateInformationDensity(req[r].context, 0, <<>>, NoReply).providerCalled
    /\ req' = [req EXCEPT ![r] = AnalyzeCatch(Faulted(@))]
    /\ UNCHANGED <<sessions, now, nextId, ncIssued, markedCovered, call, ret, reports>>

AnalyzeSaveSession(r) ==
    /\ req[r].pc = "a_saveSession"
    /\ sessions' = saveSession(sessions, req[r].sessionId,
                        [originalContext |-> req[r].context,
                         enrichedContext |-> req[r].context,
                         discoveryFindings |-> <<>>,
                         gaps |-> <<req[r].ir.question>>,
                         turnCount |-> 1,
                         usedLenses |-> <<>>], now)
    /\ req' = [req EXCEPT ![r] = Finished(@, 200, Append(@.events, Ev("NEED_CLARIFICATION")))]
    /\ ncIssued' = [ncIssued EXCEPT ![req[r].sessionId] = @ + 1]
    /\ UNCHANGED <<now, nextId, markedCovered, call, ret, reports>>

AnalyzeSaveSessionThrows(r) ==
    /\ req[r].pc = "a_saveSession"
    /\ req' = [req EXCEPT ![r] = AnalyzeCatch(Faulted(@))]
    /\ UNCHANGED <<sessions, now, nextId, ncIssued, markedCovered, call, ret, reports>>

\* the completeness check looks at the discovery verdict for every request
CompletenessGate_Always(ir) == TRUE

\* if (!ir.isAuditable) in front of the completeness check
CompletenessGate(ir) == ~ir.isAuditable

\* ANALYSIS_START sent before the discovery sweep has answered
AnalyzeDiscover_AnalysisFirst(r, reply) ==
    /\ req[r].pc = "a_discover"
    /\ req' = [req EXCEPT ![r] =
            [@ EXCEPT !.pc = "a_analyze", !.discovery = discover(reply),
                      !.events = @ \o <<Ev("ANALYSIS_START"), Ev("DISCOVERY_COMPLETE")>>]]
    /\ UNCHANGED <<sessions, now, nextId, ncIssued, markedCovered, call, ret, reports>>

\* discovery.discover returns: DISCOVERY_COMPLETE, the completeness check for
\* a request the interrogator did not clear, ANALYSIS_START
AnalyzeDiscover(r, reply) ==
    /\ req[r].pc = "a_discover"
    /\ LET discoveryResult == discover(reply)
           ev == Append(req[r].events, Ev("DISCOVERY_COMPLETE"))
           verdict == evaluateCompleteness(discoveryResult)
       IN IF discoveryResult.threw
          THEN /\ req' = [req EXCEPT ![r] = AnalyzeCatch(@)]
               /\ UNCHANGED <<sessions, ncIssued>>
          ELSE IF CompletenessGate(req[r].ir) /\ ~verdict.proceed /\ verdict.gap # <<>>
          THEN /\ sessions' = saveSession(sessions, req[r].sessionId,
                                [originalContext |-> req[r].context,
                                 enrichedContext |-> req[r].context,
                                 discoveryFindings |-> discoveryResult.findings,
                                 gaps |-> discoveryResult.gaps,
                                 turnCount |-> 0,
                                 usedLenses |-> <<>>], now)
               /\ req' = [req EXCEPT ![r] =
                            Finished(@, 200, Append(ev, Ev("NEED_CLARIFICATION")))]
               /\ ncIssued' = [ncIssued EXCEPT ![req[r].sessionId] = @ + 1]
          ELSE /\ req' = [req EXCEPT ![r] =
                            [@ EXCEPT !.pc = "a_analyze", !.discovery = discoveryResult,
                                      !.events = Append(ev, Ev("ANALYSIS_START"))]]
               /\ UNCHANGED <<sessions, ncIssued>>
    /\ UNCHANGED <<now, nextId, markedCovered, call, ret, reports>>

\* the provider call of discover rejects
AnalyzeDiscoverThrows(r) ==
    /\ req[r].pc = "a_discover"
    /\ req' = [req EXCEPT ![r] = AnalyzeCatch(Faulted(@))]
    /\ UNCHANGED <<sessions, now, nextId, ncIssued, markedCovered, call, ret, reports>>

\* cso.analyze returns a report, or it throws
AnalyzeReport(r, behaviour) ==
    /\ req[r].pc = "a_analyze"
    /\ LET result == analyze(enrichedContextOf(req[r].context, req[r].discovery), behaviour)
       IN req' = [req EXCEPT ![r] =
                IF result.threw THEN AnalyzeCatch(Faulted(@))
                ELSE [@ EXCEPT !.pc = "a_persist", !.report = result.report]]
    /\ UNCHANGED <<sessions, now, nextId, ncIssued, markedCovered, call, ret, reports>>

\* the document id of the report of request r
DocIdOf(r) == <<r.sessionId, IF r.kind = "clarify" THEN r.turn.turnCount ELSE 0>>

\* The two writes of the report, inside their own try / catch: collection.add
\* (outcome "none" when it throws) and saveAuditMemory, which swallows the
\* failure of its own write ("added"); "saved" when both succeed.
PersistOutcomes == {"none", "added", "saved"}
\* the report store out of reach: every write of a report fails
StoreDown == {"none"}

\* the report documents of the store
Stored(store) == {id \in DOMAIN store : store[id].exists}

WriteReport(store, id, outcome, businessContext, groundedContext, report) ==
    IF outcome = "none" THEN store
    ELSE [store EXCEPT ![id] =
            AuditMemory(businessContext,
                        IF outcome = "saved" THEN groundedContext ELSE <<>>,
                        extractDimensions(report), report)]

\* REPORT_COMPLETE with the id of a document that was never written
AnalyzePersist_Skipped(r, outcome) ==
    /\ req[r].pc = "a_persist"
    /\ req' = [req EXCEPT ![r] =
            Finished(@, 200,
                     Append(@.events,
                            ReportEv(DocIdOf(@), @.report, extractDimensions(@.report))))]
    /\ UNCHANGED <<sessions, now, nextId, ncIssued, markedCovered, call, ret, reports>>

\* either way REPORT_COMPLETE
AnalyzePersist(r, outcome) ==
    /\ req[r].pc = "a_persist"
    /\ outcome # "none" => Cardinality(Stored(reports)) < MaxReports
    /\ reports' = WriteReport(reports, DocIdOf(req[r]), outcome, req[r].context,
                              req[r].discovery.findings, req[r].report)
    /\ req' = [req EXCEPT ![r] =
            Finished(@, 200,
                     Append(@.events,
                            ReportEv(IF outcome = "none" THEN LOCAL_ID ELSE DocIdOf(@),
                                     @.report, extractDimensions(@.report))))]
    /\ UNCHANGED <<sessions, now, nextId, ncIssued, markedCovered, call, ret>>

\* ------------------------------------------------ POST /analyze/clarify
PostClarify(r, sessionId, clarification) ==
    /\ req[r].pc = "idle"
    /\ sessionId \in SessionIds \ nextId
    /\ req' = [req EXCEPT ![r] =
            IF clarification = <<>>
            THEN Finished([Idle EXCEPT !.kind = "clarify", !.sessionId = sessionId], 400, <<>>)
            ELSE [Idle EXCEPT !.pc = "c_getSession", !.kind = "clarify",
                              !.sessionId = sessionId, !.clarification = clarification]]
    /\ UNCHANGED <<sessions, now, nextId, ncIssued, markedCovered, call, ret, reports>>

\* the fields of the session that the handler reads after getSession
Snapshot(session) ==
    [exists |-> TRUE, originalContext |-> session.originalContext,
     enrichedContext |-> session.enrichedContext,
     discoveryFindings |-> session.discoveryFindings, gaps |-> session.gaps]

ClarifyGetSession(r) ==
    /\ req[r].pc = "c_getSession"
    /\ LET session == getSessionResult(sessions, req[r].sessionId, now)
       IN req' = [req EXCEPT ![r] =
                IF session.exists
                THEN [@ EXCEPT !.pc = "c_incrementTurn", !.session = Snapshot(session),
                               !.status = 200]
                ELSE Finished(@, 404, <<>>)]
    /\ sessions' = getSession(sessions, req[r].sessionId, now)
    /\ UNCHANGED <<now, nextId, ncIssued, markedCovered, call, ret, reports>>

\* getSession is awaited outside the try block: its rejection ends the request
ClarifyGetSessionThrows(r) ==
    /\ req[r].pc = "c_getSession"
    /\ req' = [req EXCEPT ![r] = Finished(Faulted(@), 500, <<>>)]
    /\ UNCHANGED <<sessions, now, nextId, ncIssued, markedCovered, call, ret, reports>>

ClarifyIncrementTurn(r) ==
    /\ req[r].pc = "c_incrementTurn"
    /\ LET sid == req[r].sessionId
           ctx == cumulativeContext(req[r].session, req[r].clarification)
           turnResult == incrementTurnResult(sessions, sid)
       IN /\ turnResult.ok => turnResult.turnCount <= MaxTurn
          /\ sessions' = incrementTurn(sessions, sid, ctx, req[r].session.gaps)
          /\ req' = [req EXCEPT ![r] =
                IF turnResult.ok
                THEN [@ EXCEPT !.pc = "c_interrogate", !.context = ctx, !.turn = turnResult]
                ELSE Finished(@, 200, Append(@.events, ErrorEv(ALREADY_PROCESSING)))]
    /\ UNCHANGED <<now, nextId, ncIssued, markedCovered, call, ret, reports>>

\* runTransaction rejects (contention, store unreachable): nothing is written
ClarifyIncrementTurnThrows(r) ==
    /\ req[r].pc = "c_incrementTurn"
    /\ req' = [req EXCEPT ![r] = [@ EXCEPT !.pc = "c_catch", !.fault = TRUE]]
    /\ UNCHANGED <<sessions, now, nextId, ncIssued, markedCovered, call, ret, reports>>

\* ir.lensUsed && !usedLenses.includes(ir.lensUsed)
NewLens(ir, usedLenses) == ir.lensUsed # "" /\ ir.lensUsed \notin Range(usedLenses)

\* from INTERROGATOR_RESPONSE to the next await of the handler
AfterLenses(r, ir) ==
    LET ev == Append(r.events, Ev("INTERROGATOR_RESPONSE"))
    IN IF ir.isAuditable
       THEN [r EXCEPT !.pc = "c_analyze", !.ir = ir,
                      !.events = ev \o <<Ev("READY_FOR_AUDIT"), Ev("ANALYSIS_START")>>]
       ELSE [r EXCEPT !.pc = "c_releaseLock", !.ir = ir, !.events = ev]

ClarifyInterrogate(r, reply) ==
    /\ req[r].pc = "c_interrogate"
    /\ LET ir == evaluateInformationDensity(req[r].context, req[r].turn.turnCount,
                                            req[r].turn.usedLenses, reply)
       IN /\ req' = [req EXCEPT ![r] =
                IF NewLens(ir, req[r].turn.usedLenses)
                THEN [@ EXCEPT !.pc = "c_updateLenses", !.ir = ir]
                ELSE AfterLenses(@, ir)]
          /\ markedCovered' = [markedCovered EXCEPT ![req[r].sessionId] =
                                    @ \cup CoveredBy(req[r].context, ir)]
    /\ UNCHANGED <<sessions, now, nextId, ncIssued, call, ret, reports>>

ClarifyInterrogateThrows(r) ==
    /\ req[r].pc = "c_interrogate"
    /\ evaluateInformationDensity(req[r].context, req[r].turn.turnCount,
                                  req[r].turn.usedLenses, NoReply).providerCalled
    /\ req' = [req EXCEPT ![r] = [@ EXCEPT !.pc = "c_catch", !.fault = TRUE]]
    /\ UNCHANGED <<sessions, now, nextId, ncIssued, markedCovered, call, ret, reports>>

ClarifyUpdateLenses(r) ==
    /\ req[r].pc = "c_updateLenses"
    /\ sessions' = updateUsedLenses(sessions, req[r].sessionId,
                        Append(req[r].turn.usedLenses, req[r].ir.lensUsed))
    /\ req' = [req EXCEPT ![r] = AfterLenses(@, @.ir)]
    /\ UNCHANGED <<now, nextId, ncIssued, markedCovered, call, ret, reports>>

\* not auditable: releaseLock, NEED_CLARIFICATION, end
ClarifyNeedClarification(r) ==
    /\ req[r].pc = "c_releaseLock"
    /\ sessions' = releaseLock(sessions, req[r].sessionId)
    /\ req' = [req EXCEPT ![r] = Finished(@, 200, Append(@.events, Ev("NEED_CLARIFICATION")))]
    /\ ncIssued' = [ncIssued EXCEPT ![req[r].sessionId] = @ + 1]
    /\ UNCHANGED <<now, nextId, markedCovered, call, ret, reports>>

\* cso.analyze returns a report, or it throws
ClarifyReport(r, behaviour) ==
    /\ req[r].pc = "c_analyze"
    /\ LET result == analyze(req[r].context, behaviour)
       IN req' = [req EXCEPT ![r] =
                IF result.threw THEN [@ EXCEPT !.pc = "c_catch", !.fault = TRUE]
                ELSE [@ EXCEPT !.pc = "c_persist", !.report = result.report]]
    /\ UNCHANGED <<sessions, now, nextId, ncIssued, markedCovered, call, ret, reports>>

\* REPORT_COMPLETE written as soon as the report is stored, before deleteSession
ClarifyPersist_ReportsFirst(r, outcome) ==
    /\ req[r].pc = "c_persist"
    /\ outcome # "none" => Cardinality(Stored(reports)) < MaxReports
    /\ reports' = WriteReport(reports, DocIdOf(req[r]), outcome,
                              req[r].session.enrichedContext,
                              req[r].session.discoveryFindings, req[r].report)
    /\ req' = [req EXCEPT ![r] =
            [@ EXCEPT !.pc = "c_deleteSession",
                      !.docId = IF outcome = "none" THEN LOCAL_ID ELSE DocIdOf(req[r]),
                      !.events = Append(@, ReportEv(IF outcome = "none" THEN LOCAL_ID
                                                                        ELSE DocIdOf(req[r]),
                                                    req[r].report,
                                                    extractDimensions(req[r].report)))]]
    /\ UNCHANGED <<sessions, now, nextId, ncIssued, markedCovered, call, ret>>

\* the write of the report is inside its own try/catch; the record is made
\* from the session read at the start of the request
ClarifyPersist(r, outcome) ==
    /\ req[r].pc = "c_persist"
    /\ outcome # "none" => Cardinality(Stored(reports)) < MaxReports
    /\ reports' = WriteReport(reports, DocIdOf(req[r]), outcome,
                              req[r].session.enrichedContext,
                              req[r].session.discoveryFindings, req[r].report)
    /\ req' = [req EXCEPT ![r] =
            [@ EXCEPT !.pc = "c_deleteSession",
                      !.docId = IF outcome = "none" THEN LOCAL_ID ELSE DocIdOf(req[r])]]
    /\ UNCHANGED <<sessions, now, nextId, ncIssued, markedCovered, call, ret>>

ClarifyDeleteSession(r) ==
    /\ req[r].pc = "c_deleteSession"
    /\ sessions' = deleteSession(sessions, req[r].sessionId)
    /\ req' = [req EXCEPT ![r] =
            Finished(@, 200, Append(@.events,
                                    ReportEv(@.docId, @.report,
                                             extractDimensions(@.report))))]
    /\ UNCHANGED <<now, nextId, ncIssued, markedCovered, call, ret, reports>>

ClarifyDeleteSessionThrows(r) ==
    /\ req[r].pc = "c_deleteSession"
    /\ req' = [req EXCEPT ![r] = [@ EXCEPT !.pc = "c_catch", !.fault = TRUE]]
    /\ UNCHANGED <<sessions, now, nextId, ncIssued, markedCovered, call, ret, reports>>

\* catch (error): releaseLock, ERROR, end
ClarifyCatch(r) ==
    /\ req[r].pc = "c_catch"
    /\ sessions' = releaseLock(sessions, req[r].sessionId)
    /\ req' = [req EXCEPT ![r] = Finished(@, 200, Append(@.events, ErrorEv(THROWN)))]
    /\ UNCHANGED <<now, nextId, ncIssued, markedCovered, call, ret, reports>>

\* ---------------------------------------------- POST /analyze/stress-test
SCENARIOS == {"RECESSION", "PRICE_WAR", "SCALE_UP"}

\* doc.exists, and the document as AuditMemory; null when the read fails
loadAuditMemory(store, reportId, readOk) ==
    IF readOk /\ reportId \in DOMAIN store THEN store[reportId] ELSE NoReport

\* What the stress provider can return: text without a {...} block ("prose"),
\* a block JSON.parse rejects ("badjson"), a JSON object with stressed_scores
\* (a map, empty when missing) and mitigation_cards (a list, empty when
\* missing), or one whose mitigation_cards cannot be mapped ("badcards")
StressReply(kind, stressed_scores, mitigation_cards) ==
    [kind |-> kind, stressed_scores |-> stressed_scores,
     mitigation_cards |-> mitigation_cards]

Card(dimension, stressed_score) == [dimension |-> dimension, stressed_score |-> stressed_score]

\* scores[dim] || 50
OrNeutral(scores, dim) ==
    IF dim \in DOMAIN scores /\ scores[dim] # 0 THEN scores[dim] ELSE NEUTRAL_SCORE

\* scores[dim] ?? fallback
OrElse(scores, dim, fallback) == IF dim \in DOMAIN scores THEN scores[dim] ELSE fallback

\* triggerStressTest from the answer of the provider to its return
StressResultOf(memory, scenarioId, reply) ==
    LET stressedScores ==
            IF reply.kind \in {"json", "badcards"} THEN reply.stressed_scores ELSE <<>>
        rawMitigationCards ==
            IF reply.kind = "json"
            THEN [i \in DOMAIN reply.mitigation_cards |->
                    LET c == reply.mitigation_cards[i]
                    IN [dimension |-> c.dimension,
                        stressedScore |-> c.stressed_score,
                        riskDelta |-> OrNeutral(memory.dimensionScores, c.dimension)
                                        - c.stressed_score]]
            ELSE <<>>
        original(dim) == OrElse(memory.dimensionScores, dim, NEUTRAL_SCORE)
    IN [scenarioId |-> scenarioId,
        originalScores |-> memory.dimensionScores,
        stressedScores |-> stressedScores,
        riskDeltas |-> [dim \in DimNames |->
                            OrElse(stressedScores, dim, original(dim)) - original(dim)],
        mitigationCards |-> rawMitigationCards]

StressEv(result) == [type |-> "STRESS_COMPLETE", message |-> "", result |-> result]

PostStressTest(r, reportId, scenarioId) ==
    /\ req[r].pc = "idle"
    /\ req' = [req EXCEPT ![r] =
            IF reportId = NoDocId \/ scenarioId = "" \/ scenarioId \notin SCENARIOS
            THEN Finished([Idle EXCEPT !.kind = "stress"], 400, <<>>)
            ELSE [Idle EXCEPT !.pc = "s_load", !.kind = "stress", !.docId = reportId,
                              !.scenarioId = scenarioId, !.status = 200,
                              !.events = <<Ev("STRESS_START")>>]]
    /\ UNCHANGED <<sessions, now, nextId, ncIssued, markedCovered, call, ret, reports>>

\* catch (error) of POST /analyze/stress-test
StressCatch(r) == Finished(r, 200, Append(r.events, ErrorEv(THROWN)))

\* a missing record replaced by neutral scores, the stress test going on
StressLoad_NeutralBaseline(r, readOk) ==
    /\ req[r].pc = "s_load"
    /\ LET memory == loadAuditMemory(reports, req[r].docId, readOk)
       IN req' = [req EXCEPT ![r] =
                [@ EXCEPT !.pc = "s_provider",
                          !.memory = IF memory.exists THEN memory
                                     ELSE AuditMemory(<<>>, <<>>, FallbackDimensions,
                                                      NoReportText)]]
    /\ UNCHANGED <<sessions, now, nextId, ncIssued, markedCovered, call, ret, reports>>

\* loadAuditMemory returns; no record is fatal
StressLoad(r, readOk) ==
    /\ req[r].pc = "s_load"
    /\ LET memory == loadAuditMemory(reports, req[r].docId, readOk)
       IN req' = [req EXCEPT ![r] =
                IF memory.exists
                THEN [@ EXCEPT !.pc = "s_provider", !.memory = memory]
                ELSE StressCatch(Faulted(@))]
    /\ UNCHANGED <<sessions, now, nextId, ncIssued, markedCovered, call, ret, reports>>

\* the stressed scores written back over the scores of the record
StressResolves_Persisting(r, reply) ==
    /\ req[r].pc = "s_provider"
    /\ req' = [req EXCEPT ![r] =
            Finished(@, 200,
                     Append(@.events,
                            StressEv(StressResultOf(@.memory, @.scenarioId, reply))))]
    /\ reports' = [reports EXCEPT ![req[r].docId].dimensionScores =
                        StressResultOf(req[r].memory, req[r].scenarioId, reply).stressedScores]
    /\ UNCHANGED <<sessions, now, nextId, ncIssued, markedCovered, call, ret>>

\* the stream of the stress provider ends: STRESS_COMPLETE
StressResolves(r, reply) ==
    /\ req[r].pc = "s_provider"
    /\ req' = [req EXCEPT ![r] =
            Finished(@, 200,
                     Append(@.events,
                            StressEv(StressResultOf(@.memory, @.scenarioId, reply))))]
    /\ UNCHANGED <<sessions, now, nextId, ncIssued, markedCovered, call, ret, reports>>

StressRejects(r) ==
    /\ req[r].pc = "s_provider"
    /\ req' = [req EXCEPT ![r] = StressCatch(Faulted(@))]
    /\ UNCHANGED <<sessions, now, nextId, ncIssued, markedCovered, call, ret, reports>>

\* ------------------------------- GET /report/:id, GET /report/:id/download
\* res.json of GET /report/:id
ReportJson(id, memory) ==
    [sent |-> TRUE, pdf |-> FALSE, id |-> id, report |-> memory.report,
     dimensions |-> memory.dimensionScores,
     grounded_context |-> memory.groundedContext,
     business_context |-> memory.businessContext]

\* res.send(generatePDF(memory)): a document made of the record
ReportPdf(id, memory) == [ReportJson(id, memory) EXCEPT !.pdf = TRUE]

\* a response of a route that opens no event stream
Answer(kind, status, body) ==
    [Finished([Idle EXCEPT !.kind = kind], status, <<>>) EXCEPT !.body = body]

\* the answer to GET /report/:id?token=..., kept with the id and the token of
\* the request
Fetched(id, token, status, body) ==
    [Answer("report", status, body) EXCEPT !.docId = id, !.token = token]

\* the record sent to whoever names its id, whatever the token
GetReport_NoToken(r, id, token, download, readOk, pdfOk) ==
    /\ req[r].pc = "idle"
    /\ LET memory == loadAuditMemory(reports, id, readOk)
       IN req' = [req EXCEPT ![r] =
                IF ~memory.exists THEN Fetched(id, token, 404, NoBody)
                ELSE IF ~download THEN Fetched(id, token, 200, ReportJson(id, memory))
                ELSE IF pdfOk THEN Fetched(id, token, 200, ReportPdf(id, memory))
                ELSE Fetched(id, token, 500, NoBody)]
    /\ UNCHANGED <<sessions, now, nextId, ncIssued, markedCovered, call, ret, reports>>

\* both routes: 404 without a record, 403 unless the token is the last eight
\* characters of the id, then the record as JSON or as a PDF (500 when the
\* PDF cannot be made)
GetReport(r, id, token, download, readOk, pdfOk) ==
    /\ req[r].pc = "idle"
    /\ LET memory == loadAuditMemory(reports, id, readOk)
       IN req' = [req EXCEPT ![r] =
                IF ~memory.exists THEN Fetched(id, token, 404, NoBody)
                ELSE IF token # Slice8(id) THEN Fetched(id, token, 403, NoBody)
                ELSE IF ~download THEN Fetched(id, token, 200, ReportJson(id, memory))
                ELSE IF pdfOk THEN Fetched(id, token, 200, ReportPdf(id, memory))
                ELSE Fetched(id, token, 500, NoBody)]
    /\ UNCHANGED <<sessions, now, nextId, ncIssued, markedCovered, call, ret, reports>>

\* ------------------------------------------------------------ environment
\* the connection of a finished request is gone; another request can arrive
Forget(r) ==
    /\ req[r].pc = "done"
    /\ req' = [req EXCEPT ![r] = Idle]
    /\ UNCHANGED <<sessions, now, nextId, ncIssued, markedCovered, call, ret, reports>>

\* Date.now() is read only to set expiresAt and to compare with it: the clock
\* advances while a stored session has not yet expired
Tick ==
    /\ \E s \in SessionIds : sessions[s].exists /\ ~Expired(sessions[s], now)
    /\ now' = now + 1
    /\ UNCHANGED <<sessions, nextId, req, ncIssued, markedCovered, call, ret, reports>>

Next ==
    \/ \E r \in Reqs, c \in BusinessContexts, s \in SessionIds : PostAnalyze(r, c, s)
    \/ \E r \in Reqs, p \in HandlerReplies : AnalyzeInterrogate(r, p)
    \/ \E r \in Reqs : AnalyzeInterrogateThrows(r)
    \/ \E r \in Reqs : AnalyzeSaveSession(r)
    \/ \E r \in Reqs : AnalyzeSaveSessionThrows(r)
    \/ \E r \in Reqs, d \in HandlerDiscoveryReplies : AnalyzeDiscover(r, d)
    \/ \E r \in Reqs : AnalyzeDiscoverThrows(r)
    \/ \E r \in Reqs, b \in HandlerBehaviours : AnalyzeReport(r, b)
    \/ \E r \in Reqs, o \in StoreDown : AnalyzePersist(r, o)
    \/ \E r \in Reqs, s \in SessionIds, c \in Clarifications : PostClarify(r, s, c)
    \/ \E r \in Reqs : ClarifyGetSession(r)
    \/ \E r \in Reqs : ClarifyGetSessionThrows(r)
    \/ \E r \in Reqs : ClarifyIncrementTurn(r)
    \/ \E r \in Reqs : ClarifyIncrementTurnThrows(r)
    \/ \E r \in Reqs, p \in HandlerReplies : ClarifyInterrogate(r, p)
    \/ \E r \in Reqs : ClarifyInterrogateThrows(r)
    \/ \E r \in Reqs : ClarifyUpdateLenses(r)
    \/ \E r \in Reqs : ClarifyNeedClarification(r)
    \/ \E r \in Reqs, b \in HandlerBehaviours : ClarifyReport(r, b)
    \/ \E r \in Reqs, o \in StoreDown : ClarifyPersist(r, o)
    \/ \E r \in Reqs : ClarifyDeleteSession(r)
    \/ \E r \in Reqs : ClarifyDeleteSessionThrows(r)
    \/ \E r \in Reqs : ClarifyCatch(r)
    \/ \E r \in Reqs : Forget(r)
    \/ Tick

Spec == Init /\ [][Next]_vars

\* ------------------------------------------------ one request at a time
\* The requests of one connection, with every answer of the discovery
\* provider, unparsable and rejecting calls inside cso.analyze, every outcome
\* of the report writes, and the stress test.
RunReqs == {"r1"}

StressReportIds == {NoDocId, LOCAL_ID, <<"s1", 0>>, <<"s1", 2>>}
StressScenarios == {"", "RECESSION", "MELTDOWN"}

StressReplies ==
    {StressReply("prose", <<>>, <<>>),
     StressReply("badjson", <<>>, <<>>),
     StressReply("json", [d \in DimNames |-> 30], <<Card("TAM Viability", 30)>>),
     StressReply("json", [d \in {"Scalability"} |-> 70], <<>>),
     StressReply("badcards", [d \in {"Scalability"} |-> 20], <<>>)}

NextRun ==
    \/ \E r \in RunReqs, c \in BusinessContexts, s \in SessionIds : PostAnalyze(r, c, s)
    \/ \E r \in RunReqs, p \in HandlerReplies : AnalyzeInterrogate(r, p)
    \/ \E r \in RunReqs : AnalyzeInterrogateThrows(r)
    \/ \E r \in RunReqs : AnalyzeSaveSession(r)
    \/ \E r \in RunReqs : AnalyzeSaveSessionThrows(r)
    \/ \E r \in RunReqs, d \in DiscoveryReplies : AnalyzeDiscover(r, d)
    \/ \E r \in RunReqs : AnalyzeDiscoverThrows(r)
    \/ \E r \in RunReqs, o \in PersistOutcomes : AnalyzePersist(r, o)
    \/ \E r \in RunReqs, s \in SessionIds, c \in Clarifications : PostClarify(r, s, c)
    \/ \E r \in RunReqs : ClarifyGetSession(r)
    \/ \E r \in RunReqs : ClarifyGetSessionThrows(r)
    \/ \E r \in RunReqs : ClarifyIncrementTurn(r)
    \/ \E r \in RunReqs : ClarifyIncrementTurnThrows(r)
    \/ \E r \in RunReqs, p \in HandlerReplies : ClarifyInterrogate(r, p)
    \/ \E r \in RunReqs : ClarifyInterrogateThrows(r)
    \/ \E r \in RunReqs : ClarifyUpdateLenses(r)
    \/ \E r \in RunReqs : ClarifyNeedClarification(r)
    \/ \E r \in RunReqs, o \in PersistOutcomes : ClarifyPersist(r, o)
    \/ \E r \in RunReqs : ClarifyDeleteSession(r)
    \/ \E r \in RunReqs : ClarifyDeleteSessionThrows(r)
    \/ \E r \in RunReqs : ClarifyCatch(r)
    \/ \E r \in RunReqs, b \in RunBehaviours : AnalyzeReport(r, b)
    \/ \E r \in RunReqs, b \in RunBehaviours : ClarifyReport(r, b)
    \/ \E r \in RunReqs, id \in StressReportIds, sc \in StressScenarios :
            PostStressTest(r, id, sc)
    \/ \E r \in RunReqs, ok \in BOOLEAN : StressLoad(r, ok)
    \/ \E r \in RunReqs, p \in StressReplies : StressResolves(r, p)
    \/ \E r \in RunReqs : StressRejects(r)
    \/ \E r \in RunReqs : Forget(r)
    \/ Tick

SpecRun == Init /\ [][NextRun]_vars

\* ------------------------------------------------------ runs that go well
\* One request at a time while every provider call returns and every store
\* operation succeeds: no call rejects, both writes of a report go through.
\* A request arrives only while the report store has room for its report.
Room == Cardinality(Stored(reports)) < MaxReports

\* the interrogator's provider may also answer a well-formed object that
\* carries no question
LiveReplies ==
    HandlerReplies \cup {Reply("json", FALSE, TRUE, 20, "CUSTOMER/MARKET", "", <<>>)}

LiveDiscoveryReplies == {d \in DiscoveryReplies : ~discover(d).threw}
LiveBehaviours ==
    {b \in RunBehaviours :
        /\ ~SomeRejects(b.replies) /\ ~SomeRejects(b.retry)
        /\ b.synthesis # "reject" /\ b.moat # "reject"}

\* an await of the handler of r resolves
LiveStep(r) ==
    \/ \E p \in LiveReplies : AnalyzeInterrogate(r, p)
    \/ AnalyzeSaveSession(r)
    \/ \E d \in LiveDiscoveryReplies : AnalyzeDiscover(r, d)
    \/ req[r].pc = "a_analyze" /\ \E b \in LiveBehaviours : AnalyzeReport(r, b)
    \/ AnalyzePersist(r, "saved")
    \/ ClarifyGetSession(r)
    \/ ClarifyIncrementTurn(r)
    \/ \E p \in LiveReplies : ClarifyInterrogate(r, p)
    \/ ClarifyUpdateLenses(r)
    \/ ClarifyNeedClarification(r)
    \/ req[r].pc = "c_analyze" /\ \E b \in LiveBehaviours : ClarifyReport(r, b)
    \/ ClarifyPersist(r, "saved")
    \/ ClarifyDeleteSession(r)

NextLive ==
    \/ \E r \in RunReqs, c \in BusinessContexts, s \in SessionIds :
            Room /\ PostAnalyze(r, c, s)
    \/ \E r \in RunReqs, s \in SessionIds, c \in Clarifications :
            Room /\ PostClarify(r, s, c)
    \/ \E r \in RunReqs : LiveStep(r)
    \/ \E r \in RunReqs : Forget(r)
    \/ Tick

\* a pending await resolves: the event loop runs the continuation of a call
\* that returned
SpecLive == Init /\ [][NextLive]_vars /\ \A r \in RunReqs : WF_vars(LiveStep(r))

\* ------------------------------------------------------- report fetches
\* One client that runs audits and fetches reports: the report writes may
\* fail, and so may the read of the store and the making of the PDF.
\* the ids and the tokens of report fetches: the id of a report that was not
\* stored, of reports that can be, and no token or the tail of one of them
FetchIds == {LOCAL_ID, <<"s1", 0>>, <<"s1", 2>>}
FetchTokens == {<<>>, <<0>>, <<2>>}

NextFetch ==
    \/ NextLive
    \/ \E r \in RunReqs, o \in PersistOutcomes : AnalyzePersist(r, o)
    \/ \E r \in RunReqs, o \in PersistOutcomes : ClarifyPersist(r, o)
    \/ \E r \in RunReqs, id \in FetchIds, t \in FetchTokens, dl, ok, pdf \in BOOLEAN :
            GetReport(r, id, t, dl, ok, pdf)

SpecFetch == Init /\ [][NextFetch]_vars

\* ------------------------------------------------ cso.analyze, called directly
\* One call of analyze followed await by await: the calls of a round complete
\* in any order, with any of the answers below.
AnalyzeContexts == {<<"India", "rival">>}

\* what a specialist's provider can answer: text without a block, a block
\* that does not parse, its own three dimensions scored, an object without
\* dimensions or confidence_score, its own dimensions at the neutral score
AnalyzeReplies(agent) ==
    {ProseReply, OwnReply(agent)}
        \cup (IF agent = "market_analyst"
              THEN {SpecialistReply("badjson", <<>>, FALSE, 0),
                    SpecialistReply("json", <<>>, FALSE, 0)}
              ELSE {})
        \cup (IF agent = "finance_analyst"
              THEN {SpecialistReply("json",
                        [d \in OwnedDimensions(agent) |-> NEUTRAL_SCORE], TRUE, 90)}
              ELSE {})

CallAnalyze(r) ==
    /\ req[r].pc = "direct"
    /\ req' = [req EXCEPT ![r] = [@ EXCEPT !.pc = "awaiting",
                                        !.cso = StartRun(req[r].context)]]
    /\ UNCHANGED <<sessions, now, nextId, ncIssued, markedCovered, call, ret, reports>>

\* analyze throws; the specialist calls still running go on
Throws(r) == [r EXCEPT !.pc = "threw", !.fault = TRUE, !.cso.phase = "rejected"]

\* analyze returns
Returns(r) ==
    [r EXCEPT !.pc = "returned", !.report = ResultOf(r.cso).report,
              !.cso.phase = "returned"]

SpecialistResolves(r, agent, reply) ==
    /\ req[r].cso.phase \in {"specialists", "rejected"}
    /\ req[r].cso.rounds = 1
    /\ req[r].cso.calls[agent] = "running"
    /\ req' = [req EXCEPT ![r].cso = Resolved(@, agent, reply)]
    /\ UNCHANGED <<sessions, now, nextId, ncIssued, markedCovered, call, ret, reports>>

\* Promise.all rejects with the first rejection
SpecialistRejects(r, agent) ==
    /\ req[r].cso.phase \in {"specialists", "rejected"}
    /\ req[r].cso.rounds = 1
    /\ req[r].cso.calls[agent] = "running"
    /\ req' = [req EXCEPT ![r] =
            IF @.cso.phase = "specialists"
            THEN Throws([@ EXCEPT !.cso = Rejected(@, agent)])
            ELSE [@ EXCEPT !.cso = Rejected(@, agent)]]
    /\ UNCHANGED <<sessions, now, nextId, ncIssued, markedCovered, call, ret, reports>>

Join(r) ==
    /\ req[r].cso.phase = "specialists"
    /\ AllResolved(req[r].cso.calls)
    /\ req' = [req EXCEPT ![r].cso = Joined(@)]
    /\ UNCHANGED <<sessions, now, nextId, ncIssued, markedCovered, call, ret, reports>>

SynthesisResolves(r, kind) ==
    /\ req[r].cso.phase = "synthesis"
    /\ req' = [req EXCEPT ![r].cso = Synthesised(@, kind)]
    /\ UNCHANGED <<sessions, now, nextId, ncIssued, markedCovered, call, ret, reports>>

SynthesisRejects(r) ==
    /\ req[r].cso.phase = "synthesis"
    /\ req' = [req EXCEPT ![r] = Throws(@)]
    /\ UNCHANGED <<sessions, now, nextId, ncIssued, markedCovered, call, ret, reports>>

MoatResolves(r) ==
    /\ req[r].cso.phase = "moat"
    /\ req' = [req EXCEPT ![r] =
            IF AfterMoat(@.cso).phase = "returned" THEN Returns(@)
            ELSE [@ EXCEPT !.cso = AfterMoat(@)]]
    /\ UNCHANGED <<sessions, now, nextId, ncIssued, markedCovered, call, ret, reports>>

MoatRejects(r) ==
    /\ req[r].cso.phase = "moat"
    /\ req' = [req EXCEPT ![r] = Throws(@)]
    /\ UNCHANGED <<sessions, now, nextId, ncIssued, markedCovered, call, ret, reports>>

RetryResolves(r, agent, reply) ==
    /\ req[r].cso.phase = "retry"
    /\ req[r].cso.calls[agent] = "running"
    /\ req' = [req EXCEPT ![r].cso = RetryResolved(@, agent, reply)]
    /\ UNCHANGED <<sessions, now, nextId, ncIssued, markedCovered, call, ret, reports>>

RetryRejects(r, agent) ==
    /\ req[r].cso.phase = "retry"
    /\ req[r].cso.calls[agent] = "running"
    /\ req' = [req EXCEPT ![r] = Throws([@ EXCEPT !.cso = Rejected(@, agent)])]
    /\ UNCHANGED <<sessions, now, nextId, ncIssued, markedCovered, call, ret, reports>>

\* after await Promise.all(retryPromises): the return
RetryJoin(r) ==
    /\ req[r].cso.phase = "retry"
    /\ AllResolved(req[r].cso.calls)
    /\ req' = [req EXCEPT ![r] = Returns(@)]
    /\ UNCHANGED <<sessions, now, nextId, ncIssued, markedCovered, call, ret, reports>>

InitAnalyze ==
    /\ sessions = [s \in SessionIds |-> NoSession]
    /\ now = 0
    /\ nextId = SessionIds
    /\ \E c \in AnalyzeContexts :
            req = [r \in Reqs |->
                    IF r \in RunReqs
                    THEN [Idle EXCEPT !.pc = "direct", !.kind = "direct", !.context = c]
                    ELSE Idle]
    /\ ncIssued = [s \in SessionIds |-> 0]
    /\ markedCovered = [s \in SessionIds |-> {}]
    /\ call = NoCall
    /\ ret = NoResult
    /\ reports = [id \in ReportIds |-> NoReport]

NextAnalyze ==
    \/ \E r \in RunReqs : CallAnalyze(r)
    \/ \E r \in RunReqs, a \in Specialists : \E p \in AnalyzeReplies(a) : SpecialistResolves(r, a, p)
    \/ \E r \in RunReqs, a \in Specialists : SpecialistRejects(r, a)
    \/ \E r \in RunReqs : Join(r)
    \/ \E r \in RunReqs, k \in SynthesisKinds : SynthesisResolves(r, k)
    \/ \E r \in RunReqs : SynthesisRejects(r)
    \/ \E r \in RunReqs : MoatResolves(r)
    \/ \E r \in RunReqs : MoatRejects(r)
    \/ \E r \in RunReqs, a \in Specialists : \E p \in AnalyzeReplies(a) : RetryResolves(r, a, p)
    \/ \E r \in RunReqs, a \in Specialists : RetryRejects(r, a)
    \/ \E r \in RunReqs : RetryJoin(r)

SpecAnalyze == InitAnalyze /\ [][NextAnalyze]_vars

\* ------------------------------- evaluateInformationDensity, called directly
\* bounds of the arguments
MaxWords == 3
MaxEvalTurn == 4

Words == {"software", "India", "rival", "patent"}

RECURSIVE SeqsUpTo(_, _)
SeqsUpTo(S, n) ==
    IF n = 0 THEN {<<>>}
    ELSE LET shorter == SeqsUpTo(S, n - 1)
         IN shorter \cup {Append(q, x) : q \in shorter, x \in S}

\* "Grocery store near Koramangala, competing with Reliance Smart, exclusive
\* deal with 3 local farmers", word by word
GroceryContext ==
    <<"Grocery", "store", "near", "Koramangala", "competing", "with", "Reliance",
      "Smart", "exclusive", "deal", "with", "3", "local", "farmers">>

\* a capitalised name with a company suffix
SuffixContext == <<"Reliance", "Ltd">>

EvalContexts == (SeqsUpTo(Words, MaxWords) \ {<<>>}) \cup {GroceryContext, SuffixContext}

EvalUsedLenses ==
    {<<>>, <<LENSES[1]>>, <<LENSES[3]>>, <<LENSES[1], LENSES[1]>>,
     <<LENSES[1], LENSES[2]>>, <<LENSES[3], LENSES[2]>>,
     <<LENSES[1], LENSES[2], LENSES[3]>>}

EvalReplies ==
    {NoReply, Reply("badjson", FALSE, FALSE, 0, "", "", <<>>)}
    \cup {Reply("json", aud, TRUE, score, LENSES[1], q, <<>>) :
            aud \in BOOLEAN, score \in {-5, 0, 50, 70, 150}, q \in {"", "q1"}}
    \cup {Reply("json", FALSE, FALSE, 0, "", "q1", <<"summary">>)}

EvalCalls ==
    [made : {TRUE}, groundedContext : EvalContexts, turnCount : 0..MaxEvalTurn,
     usedLenses : EvalUsedLenses, reply : EvalReplies]

InitEval ==
    /\ sessions = [s \in SessionIds |-> NoSession]
    /\ now = 0
    /\ nextId = SessionIds
    /\ req = [r \in Reqs |-> Idle]
    /\ ncIssued = [s \in SessionIds |-> 0]
    /\ markedCovered = [s \in SessionIds |-> {}]
    /\ call \in EvalCalls
    /\ ret = NoResult
    /\ reports = [id \in ReportIds |-> NoReport]

Evaluate ==
    /\ call.made
    /\ ret = NoResult
    /\ ret' = evaluateInformationDensity(call.groundedContext, call.turnCount,
                                         call.usedLenses, call.reply)
    /\ UNCHANGED <<sessions, now, nextId, req, ncIssued, markedCovered, call, reports>>

NextEval == Evaluate

SpecEval == InitEval /\ [][NextEval]_vars

\* ================================================================ claims
SessionOf(r) == req[r].sessionId

\* r has taken the lock of its session and has not yet given it back
InFlight(r) == req[r].turn.ok

\* r runs the transaction of incrementTurn in this step and the transaction returns
TransactionReturns(r) ==
    /\ req[r].pc = "c_incrementTurn"
    /\ req'[r].pc \in {"c_interrogate", "done"}

LastEvent(r) == req[r].events[Len(req[r].events)]

\* C1: when the incrementTurn transaction of a clarify request runs while
\* another request holds the lock of the session, it takes no lock: the request
\* is answered 'Request already processing' and ends, and the session document
\* (turnCount, enrichedContext, gaps, usedLenses, processing) is unchanged; a
\* request takes the lock only of a session that is not locked, so of two
\* overlapping submissions exactly one proceeds.
C1_ExactlyOneAcquires ==
    [][\A r \in Reqs :
        TransactionReturns(r) =>
            /\ (sessions[SessionOf(r)].exists /\ sessions[SessionOf(r)].processing) =>
                    /\ sessions' = sessions
                    /\ req'[r].pc = "done"
                    /\ ~req'[r].turn.ok
                    /\ req'[r].events = Append(req[r].events, ErrorEv(ALREADY_PROCESSING))
            /\ req'[r].turn.ok =>
                    /\ ~sessions[SessionOf(r)].processing
                    /\ sessions'[SessionOf(r)].processing
            /\ (sessions[SessionOf(r)].exists /\ ~sessions[SessionOf(r)].processing) =>
                    /\ req'[r].turn.ok
                    /\ sessions'[SessionOf(r)].processing
      ]_vars

\* a submission was rejected while another one holds the lock of the same session
C1_Witness ==
    \E r, q \in Reqs :
        /\ r # q
        /\ InFlight(q)
        /\ sessions[SessionOf(q)].exists /\ sessions[SessionOf(q)].processing
        /\ req[r].pc = "done" /\ req[r].kind = "clarify"
        /\ SessionOf(r) = SessionOf(q)
        /\ req[r].events = <<ErrorEv(ALREADY_PROCESSING)>>

\* C2: at most one clarify request per session is between its successful
\* incrementTurn and its own releaseLock / deleteSession.
C2_AtMostOneInFlight ==
    \A s \in SessionIds :
        Cardinality({r \in Reqs : InFlight(r) /\ SessionOf(r) = s}) <= 1

C4_AppendOnly ==
    [][\A s \in SessionIds :
        (sessions[s].exists /\ sessions'[s].exists) =>
            IsPrefix(sessions[s].enrichedContext, sessions'[s].enrichedContext)
      ]_vars

\* C5: turnCount of a session never decreases; it changes only in the
\* transaction that takes the lock, by exactly 1, and a session starts at 1.
C5_TurnCountMonotone ==
    [][\A s \in SessionIds :
        /\ (sessions[s].exists /\ sessions'[s].exists) =>
                \/ sessions'[s].turnCount = sessions[s].turnCount
                \/ /\ sessions'[s].turnCount = sessions[s].turnCount + 1
                   /\ ~sessions[s].processing
                   /\ sessions'[s].processing
                   /\ \E r \in Reqs : /\ ~InFlight(r)
                                      /\ InFlight(r)'
                                      /\ req'[r].turn.turnCount = sessions'[s].turnCount
        /\ (~sessions[s].exists /\ sessions'[s].exists) => sessions'[s].turnCount = 1
        /\ \A r \in Reqs :
                (~InFlight(r) /\ InFlight(r)' /\ SessionOf(r) = s) =>
                    sessions'[s].turnCount = sessions[s].turnCount + 1
      ]_vars

\* a session whose third turn failed: three turns counted, lock given back
C5_Witness ==
    \E s \in SessionIds :
        /\ sessions[s].exists
        /\ sessions[s].turnCount = TURN_LIMIT
        /\ ~sessions[s].processing

\* C6: a call with turnCount >= 3 returns isAuditable = TRUE without a
\* provider call, whatever the other arguments are.
C6_TurnLimitForcesAudit ==
    (ret # NoResult /\ call.turnCount >= TURN_LIMIT) =>
        /\ ret.isAuditable
        /\ ~ret.providerCalled

\* turnCount >= 3 with a context that scores 0 and a provider that would ask
C6_Witness ==
    /\ ret # NoResult
    /\ call.turnCount >= TURN_LIMIT
    /\ scoreContextDeterministically(call.groundedContext).score = 0
    /\ call.reply.kind = "json" /\ ~call.reply.is_auditable /\ call.reply.id_score = 0

\* C7: at most TURN_LIMIT NEED_CLARIFICATION events are sent for a session, and
\* a submission accepted as turn 3 or later is promoted without a provider
\* call and is never answered with a question.
C7_LoopBounded ==
    /\ \A s \in SessionIds : ncIssued[s] <= TURN_LIMIT
    /\ \A r \in Reqs :
        (InFlight(r) /\ req[r].turn.turnCount >= TURN_LIMIT) =>
            /\ req[r].pc # "c_releaseLock"
            /\ \A i \in DOMAIN req[r].events : req[r].events[i].type # "NEED_CLARIFICATION"
            /\ req[r].ir # NoResult =>
                    /\ req[r].ir.isAuditable
                    /\ ~req[r].ir.providerCalled
                    /\ req[r].events[Len(req[r].events) - 1] = Ev("READY_FOR_AUDIT")

\* two questions were asked and the submission after them is promoted
C7_Witness ==
    \E r \in Reqs :
        /\ InFlight(r)
        /\ ncIssued[SessionOf(r)] = 2
        /\ req[r].turn.turnCount = TURN_LIMIT
        /\ req[r].ir # NoResult
        /\ scoreContextDeterministically(req[r].context).score = 0

\* the keyword classes of a context, read off the context itself
HasLocation(context) == Range(context) \cap LOCATION_KEYWORDS # {}
HasCompetitor(context) ==
    \/ Range(context) \cap COMPETITOR_KEYWORDS # {}
    \/ \E i \in DOMAIN context :
          /\ i < Len(context)
          /\ <<context[i], context[i + 1]>> \in CAPITALISED \X COMPANY_SUFFIXES
HasAdvantage(context) == Range(context) \cap MOAT_KEYWORDS # {}

Points(b, n) == IF b THEN n ELSE 0

\* C8: the pre-score is 30*[location] + 30*[competitor] + 40*[advantage], at
\* most 100 and 100 exactly when all three classes match; with turnCount < 3
\* and a pre-score >= 70 the call returns isAuditable = TRUE and idScore = the
\* pre-score without a provider call.
C8_PreScore ==
    call.made =>
        LET ctx == call.groundedContext
            pre == scoreContextDeterministically(ctx).score
        IN /\ pre = Points(HasLocation(ctx), 30) + Points(HasCompetitor(ctx), 30)
                        + Points(HasAdvantage(ctx), 40)
           /\ pre <= 100
           /\ pre = 100 <=> (HasLocation(ctx) /\ HasCompetitor(ctx) /\ HasAdvantage(ctx))
           /\ (ret # NoResult /\ call.turnCount < 3 /\ pre >= 70) =>
                    /\ ret.isAuditable
                    /\ ret.idScore = pre
                    /\ ~ret.providerCalled

\* a context with a location and an advantage but no competitor: pre-score 70
C8_Witness ==
    /\ ret # NoResult
    /\ call.turnCount < 3
    /\ scoreContextDeterministically(call.groundedContext).score = 70
    /\ ~call.reply.is_auditable

\* C9: a lens marked covered in an earlier turn of a session is not the active
\* lens of a later provider call of that session while a lens is uncovered.
C9_CoveredLensNotActive ==
    [][\A r \in Reqs :
        (req[r].ir = NoResult /\ req'[r].ir # NoResult /\ req'[r].ir.providerCalled) =>
            \/ req'[r].ir.activeLens \notin markedCovered[SessionOf(r)]
            \/ Lens \subseteq markedCovered[SessionOf(r)]
      ]_vars

\* the lenses the call counts as covered: session-tracked and keyword-covered
CoveredSet(c) ==
    Range(c.usedLenses)
        \cup (IF HasLocation(c.groundedContext) THEN {"CUSTOMER/MARKET"} ELSE {})
        \cup (IF HasCompetitor(c.groundedContext) THEN {"COMPETITOR/MOAT"} ELSE {})
        \cup (IF HasAdvantage(c.groundedContext) THEN {"OPERATIONS/SUPPLY"} ELSE {})

\* C10: with turnCount < 3 and a pre-score < 70, the call forces isAuditable =
\* TRUE without a provider call exactly when all three lenses are covered, or
\* two are covered and the pre-score is at least 50; otherwise it consults the
\* provider.
C10_ForcedPromotion ==
    (/\ ret # NoResult
     /\ call.turnCount < 3
     /\ scoreContextDeterministically(call.groundedContext).score < 70) =>
        LET pre == scoreContextDeterministically(call.groundedContext).score
            n == Cardinality(CoveredSet(call) \cap Lens)
            forced == n = 3 \/ (n = 2 /\ pre >= 50)
        IN /\ forced => (ret.isAuditable /\ ~ret.providerCalled)
           /\ ~forced => ret.providerCalled

\* two lenses covered, one of them session-tracked, pre-score below 50: the
\* provider is consulted
C10_Witness ==
    /\ ret # NoResult
    /\ call.turnCount < 3
    /\ scoreContextDeterministically(call.groundedContext).score = 40
    /\ Cardinality(CoveredSet(call) \cap Lens) = 2
    /\ ret.providerCalled

\* C11: every result of evaluateInformationDensity with isAuditable = FALSE
\* carries a non-empty question, also when the provider's JSON has no question
\* or an empty one, and every result with isAuditable = TRUE carries a
\* non-empty strategyContext.
C11_OutputContract ==
    ret # NoResult =>
        /\ ~ret.isAuditable => ret.question # ""
        /\ ret.isAuditable => ret.strategyContext # <<>>

\* the interrogation step of a request, its provider call answering with p
Interrogates(r, p) == AnalyzeInterrogate(r, p) \/ ClarifyInterrogate(r, p)

\* C12: when the provider of the interrogator is consulted and its response has
\* no parseable JSON object, the result is isAuditable = FALSE, idScore = 20
\* and the fixed generic question; the request goes on to its
\* NEED_CLARIFICATION branch, and the step that ends it sends
\* NEED_CLARIFICATION, with that question stored as the gap of a new session.
C12_ParseFailureAsksGeneric ==
    [][\A r \in Reqs :
        /\ \A p \in HandlerReplies :
            (/\ p.kind # "json"
             /\ Interrogates(r, p)
             /\ req'[r].ir.providerCalled) =>
                /\ ~req'[r].ir.isAuditable
                /\ req'[r].ir.idScore = 20
                /\ req'[r].ir.question = FALLBACK_QUESTION
                /\ req'[r].pc \in {"a_saveSession", "c_releaseLock"}
                /\ \A i \in DOMAIN req'[r].events : req'[r].events[i].type # "ERROR"
        /\ (/\ req[r].ir # NoResult
            /\ req[r].ir.path = "fallback"
            /\ req[r].pc \in {"a_saveSession", "c_releaseLock"}
            /\ AnalyzeSaveSession(r) \/ ClarifyNeedClarification(r)) =>
                /\ LastEvent(r)' = Ev("NEED_CLARIFICATION")
                /\ req[r].kind = "analyze" =>
                        sessions'[SessionOf(r)].gaps = <<FALLBACK_QUESTION>>
      ]_vars

\* a first submission and a clarification were both answered with the generic
\* question after an unparseable response
C12_Witness ==
    \E r \in Reqs :
        /\ req[r].pc = "c_releaseLock"
        /\ req[r].ir.path = "fallback"
        /\ sessions[SessionOf(r)].exists
        /\ sessions[SessionOf(r)].gaps = <<FALLBACK_QUESTION>>

\* the events of a kind that a stream has carried
Has(events, type) == \E i \in DOMAIN events : events[i].type = type

\* this step writes an event of the kind to the stream of r
Gains(r, type) == ~Has(req[r].events, type) /\ Has(req'[r].events, type)

\* the interrogator has just answered for r
Answered(r) == req[r].ir = NoResult /\ req'[r].ir # NoResult

InterrogationEvents ==
    {"INTERROGATOR_START", "INTERROGATOR_RESPONSE", "READY_FOR_AUDIT"}
DiscoveryEvents == {"DISCOVERY_START", "DISCOVERY_COMPLETE"}

\* no event of a kind in `later` comes before an event of a kind in `earlier`
InOrder(events, earlier, later) ==
    \A i, j \in DOMAIN events :
        (i < j /\ events[i].type \in later) => events[j].type \notin earlier

\* REPORT_COMPLETE only after ANALYSIS_START
ReportAfterStart(events) ==
    \A j \in DOMAIN events :
        events[j].type = "REPORT_COMPLETE" =>
            \E i \in 1..(j - 1) : events[i].type = "ANALYSIS_START"

C15_DiscoveryBeforeAnalysis ==
    \A r \in Reqs :
        /\ \A j \in DOMAIN req[r].events :
                req[r].events[j].type = "ANALYSIS_START" =>
                    \E i \in 1..(j - 1) : req[r].events[i].type = "DISCOVERY_COMPLETE"
        /\ req[r].pc \in {"a_analyze", "c_analyze", "a_persist", "c_persist"} =>
                req[r].discovery # NoDiscovery
        /\ (req[r].pc = "c_deleteSession" /\ req[r].docId \in DOMAIN reports
                /\ reports[req[r].docId].exists) =>
                req[r].discovery # NoDiscovery

\* the run of analyze that request r has under way or has finished
RunOf(r) == req[r].cso
Running(r) == RunOf(r) # NoRun
\* none of the five calls of the round is still under way or has rejected
FiveCompleted(r) == \A a \in Specialists : RunOf(r).calls[a] = "resolved"

\* C16: after the join of the first round, finalDimensions holds all fifteen
\* dimension names, each with the score its owning specialist gave it,
\* whatever the order in which the five calls completed.
C16_MergedScoresAreOwners ==
    \A r \in RunReqs :
        (Running(r) /\ RunOf(r).phase \in {"synthesis", "moat"}) =>
            /\ DOMAIN RunOf(r).finalDimensions = DimNames
            /\ \A a \in Specialists : \A d \in OwnedDimensions(a) :
                    RunOf(r).finalDimensions[d]
                        = RunOf(r).specialistOutputs[a].dimensions[d]

\* the call of specialist a completes in this step with an answer that did
\* not parse
UnparsableCompletes(r, a) ==
    /\ Running(r)
    /\ RunOf(r).rounds = 1
    /\ RunOf(r).calls[a] = "running"
    /\ req'[r].cso.calls[a] = "resolved"
    /\ ~req'[r].cso.specialistOutputs[a].parsed

\* C17: when the answer of a specialist does not parse, only its own three
\* dimensions are set, to 50; the other twelve keep the value they had, and
\* the run goes on.
C17_UnparsableTouchesOnlyOwn ==
    [][\A r \in RunReqs : \A a \in Specialists :
        UnparsableCompletes(r, a) =>
            /\ \A d \in OwnedDimensions(a) :
                    req'[r].cso.finalDimensions[d] = NEUTRAL_SCORE
            /\ \A d \in DimNames \ OwnedDimensions(a) :
                    req'[r].cso.finalDimensions[d] = RunOf(r).finalDimensions[d]
            /\ req'[r].cso.phase = RunOf(r).phase
    ]_vars

\* C18: the synthesis call is made only after all five specialist calls have
\* completed and their outputs are recorded: from the join on, specialistOutputs
\* and the synthesis prompt hold all five.  While the first round runs, a call
\* that is still under way can complete and be merged whatever the other four
\* are doing, whether they are slow (still running) or have failed (rejected).
C18_SynthesisAfterJoin ==
    \A r \in RunReqs :
        /\ (Running(r) /\ RunOf(r).phase \in {"synthesis", "moat", "retry", "returned"}) =>
            /\ DOMAIN RunOf(r).specialistOutputs = Specialists
            /\ RunOf(r).synthesisPrompt.analyses = Specialists
            /\ RunOf(r).rounds = 1 => FiveCompleted(r)
        /\ (Running(r) /\ RunOf(r).rounds = 1
                /\ RunOf(r).phase \in {"specialists", "rejected"}) =>
            \A a \in Specialists :
                RunOf(r).calls[a] = "running" =>
                    ENABLED SpecialistResolves(r, a, OwnReply(a))

\* one call has rejected and the other four have completed and are merged
C18_Witness ==
    \E r \in RunReqs :
        /\ Running(r)
        /\ RunOf(r).phase = "rejected"
        /\ \E a \in Specialists :
                /\ RunOf(r).calls[a] = "rejected"
                /\ DOMAIN RunOf(r).specialistOutputs = Specialists \ {a}
                /\ \A b \in Specialists \ {a} : RunOf(r).calls[b] = "resolved"

\* every merged score is 0 or 50
AllDefault(finalDimensions) == \A d \in DimNames : finalDimensions[d] \in {0, 50}

\* C19: the specialists are called again exactly when, at the safety check
\* after the first join, all fifteen merged scores are 0 or 50; the re-audit
\* starts from the first round only, so at most once; and when its calls have
\* completed analyze returns with whatever scores resulted.
C19_RetryOnce ==
    [][\A r \in RunReqs :
        /\ (Running(r) /\ RunOf(r).phase = "moat" /\ req'[r].cso.phase \in {"retry", "returned"}) =>
                (req'[r].cso.phase = "retry" <=> AllDefault(RunOf(r).finalDimensions))
        /\ (Running(r) /\ RunOf(r).phase # "retry" /\ req'[r].cso.phase = "retry") =>
                /\ RunOf(r).phase = "moat"
                /\ RunOf(r).rounds = 1
                /\ req'[r].cso.rounds = 2
                /\ FiveCompleted(r)
        /\ (Running(r) /\ RunOf(r).phase = "retry") =>
                /\ req'[r].cso.phase \in {"retry", "returned", "rejected"}
                /\ req'[r].cso.rounds = 2
                /\ FiveCompleted(r) => req'[r].cso.phase = "returned"
        /\ (Running(r) /\ RunOf(r).phase = "returned") => req'[r].cso = RunOf(r)
    ]_vars

\* analyze has returned after a re-audit that left the scores at their defaults
C19_Witness ==
    \E r \in RunReqs :
        /\ Running(r)
        /\ RunOf(r).phase = "returned"
        /\ RunOf(r).rounds = 2
        /\ AllDefault(RunOf(r).finalDimensions)

\* the stream of r has ended and no call of the request threw: every provider
\* answered (with whatever text), every store operation outside a try block
\* of its own succeeded, and the record asked for was there
EndedWithoutFault(r) ==
    req[r].pc = "done" /\ req[r].status = 200 /\ req[r].events # <<>> /\ ~req[r].fault

StoreOperationThrows(r) ==
    \/ AnalyzeSaveSessionThrows(r)
    \/ ClarifyGetSessionThrows(r)
    \/ ClarifyIncrementTurnThrows(r)
    \/ ClarifyDeleteSessionThrows(r)

\* the stream of r ends in this step, with a normal terminal event
EndsNormally(r) ==
    /\ req'[r].pc = "done"
    /\ req'[r].status = 200
    /\ req'[r].events # <<>>
    /\ LastEvent(r)'.type \in {"NEED_CLARIFICATION", "REPORT_COMPLETE"}

\* C21: a persistence failure is never fatal.  The step in which a
\* session-store operation of a request throws (saveSession, getSession,
\* incrementTurn, deleteSession) neither takes the request to the catch block
\* of its handler nor ends it otherwise than with NEED_CLARIFICATION or
\* REPORT_COMPLETE; and when the report write or saveAuditMemory fails the
\* request goes on to REPORT_COMPLETE, with the local id when no document was
\* written.
C21_PersistenceNeverFatal ==
    [][\A r \in Reqs :
        /\ StoreOperationThrows(r) =>
                /\ req'[r].pc # "c_catch"
                /\ req'[r].pc = "done" => EndsNormally(r)
        /\ \A o \in {"none", "added"} :
                /\ AnalyzePersist(r, o) =>
                        /\ EndsNormally(r)
                        /\ LastEvent(r)'.type = "REPORT_COMPLETE"
                        /\ o = "none" => LastEvent(r)'.id = LOCAL_ID
                /\ ClarifyPersist(r, o) =>
                        /\ req'[r].pc = "c_deleteSession"
                        /\ o = "none" => req'[r].docId = LOCAL_ID
    ]_vars

\* C22: when the answer of the discovery provider does not parse at all, the
\* result discover returns to the handler is incomplete (isComplete = FALSE)
\* and its gaps are two clarifying questions; it is never a complete result
\* with an empty gap list.
C22_UnparsableSweepIsIncomplete ==
    [][\A r \in Reqs : \A d \in DiscoveryReplies :
        (d.kind # "json" /\ AnalyzeDiscover(r, d)) =>
            /\ ~discover(d).threw
            /\ ~discover(d).isComplete
            /\ Len(discover(d).gaps) = 2
            /\ ~(discover(d).isComplete /\ discover(d).gaps = <<>>)
    ]_vars

\* the sweep left the request without grounding: not complete, and gaps listed
Incomplete(discoveryResult) ==
    ~discoveryResult.isComplete /\ discoveryResult.gaps # <<>>

\* C23: when the discovery result of a request is not complete and lists
\* gaps, the step that receives it saves a session and ends the stream with
\* NEED_CLARIFICATION, without ANALYSIS_START; and ANALYSIS_START is written
\* only by a clarification request or by a request whose sweep was complete.
C23_IncompleteSweepPauses ==
    [][\A r \in Reqs :
        /\ \A d \in DiscoveryReplies :
            (AnalyzeDiscover(r, d) /\ Incomplete(discover(d))) =>
                /\ sessions'[SessionOf(r)].exists
                /\ req'[r].pc = "done"
                /\ LastEvent(r)' = Ev("NEED_CLARIFICATION")
                /\ ~Has(req'[r].events, "ANALYSIS_START")
        /\ Gains(r, "ANALYSIS_START") =>
                \/ req[r].kind = "clarify"
                \/ /\ req'[r].discovery # NoDiscovery
                   /\ ~Incomplete(req'[r].discovery)
    ]_vars

\* the stream of the stress test of r has ended with STRESS_COMPLETE
StressCompleted(r) ==
    /\ req[r].pc = "done"
    /\ req[r].kind = "stress"
    /\ req[r].events # <<>>
    /\ LastEvent(r).type = "STRESS_COMPLETE"

\* the result the STRESS_COMPLETE event of r carries
StressResult(r) == LastEvent(r).result

\* C24: in every stress-test result, for every dimension d of the catalog,
\* originalScores and stressedScores of the result both hold d and
\* riskDeltas[d] = stressedScores[d] - originalScores[d].
C24_RiskDeltaIdentity ==
    \A r \in Reqs :
        StressCompleted(r) =>
            LET result == StressResult(r)
            IN \A d \in DimNames :
                    /\ d \in DOMAIN result.riskDeltas
                    /\ d \in DOMAIN result.stressedScores
                    /\ d \in DOMAIN result.originalScores
                    /\ result.riskDeltas[d]
                            = result.stressedScores[d] - result.originalScores[d]

\* the dimensions that have an entry in a card list
CardDimensions(cards) == {cards[i].dimension : i \in DOMAIN cards}

MITIGATION_THRESHOLD == 40

\* C25: in every stress-test result a dimension has an entry in
\* mitigationCards exactly when its score in stressedScores is strictly below
\* 40, whatever cards the provider returned.
C25_CardIffBelowForty ==
    \A r \in Reqs :
        StressCompleted(r) =>
            LET result == StressResult(r)
            IN \A d \in DimNames :
                    d \in CardDimensions(result.mitigationCards)
                        <=> /\ d \in DOMAIN result.stressedScores
                            /\ result.stressedScores[d] < MITIGATION_THRESHOLD

\* the record a stress test of r asks for is not in the store
RecordMissing(r) == ~loadAuditMemory(reports, req[r].docId, TRUE).exists

StressStep(r) ==
    /\ req'[r] # req[r]
    /\ req[r].kind = "stress" \/ req'[r].kind = "stress"

\* C27: the stress-test path changes no persisted state.  A step of a
\* stress-test request leaves every session and every report document as it
\* was, and the request holds no session, no turn, no interrogation result,
\* no discovery result and no analysis; and a report document that exists is
\* never written again, so not after the REPORT_COMPLETE that announced it.
C27_StressChangesNothing ==
    [][/\ \A r \in Reqs :
            StressStep(r) =>
                /\ sessions' = sessions
                /\ reports' = reports
                /\ ncIssued' = ncIssued
                /\ markedCovered' = markedCovered
                /\ req'[r].session = NoSession
                /\ req'[r].turn = NullTurn
                /\ req'[r].ir = NoResult
                /\ req'[r].discovery = NoDiscovery
                /\ req'[r].cso = NoRun
                /\ \A i \in DOMAIN req'[r].events :
                        req'[r].events[i].type \in {"STRESS_START", "STRESS_COMPLETE", "ERROR"}
       /\ \A id \in DOMAIN reports :
            reports[id].exists => reports'[id] = reports[id]
    ]_vars

\* a stress test has ended with scores that differ from those of the stored
\* record, the record is as it was written, and a session is in the store
C27_Witness ==
    \E r \in Reqs, id \in DOMAIN reports :
        /\ StressCompleted(r)
        /\ reports[id].exists
        /\ StressResult(r).originalScores = reports[id].dimensionScores
        /\ \E d \in DimNames : StressResult(r).riskDeltas[d] # 0
        /\ \E s \in SessionIds : sessions[s].exists

\* this step creates the document of session s
Created(s) == ~sessions[s].exists /\ sessions'[s].exists

\* C28: the lifecycle of a session.  Its document is created only by the
\* first submission that was handed its id, when the interrogation of that
\* submission is not auditable, and only once: never after a question was
\* sent for the id, so never after a deletion.  The step in which a
\* clarification request writes REPORT_COMPLETE leaves no document of its
\* session.  A clarification whose getSession finds no document is answered
\* 404 without an event, and a request never writes into a missing document.
C28_SessionLifecycle ==
    [][/\ \A s \in SessionIds :
            /\ Created(s) =>
                /\ ncIssued[s] = 0
                /\ ncIssued'[s] = 1
                /\ \E r \in Reqs :
                    /\ req[r].kind = "analyze"
                    /\ SessionOf(r) = s
                    /\ req[r].ir # NoResult
                    /\ ~req[r].ir.isAuditable
                    /\ req'[r].pc = "done"
            /\ sessions[s].exists => ncIssued[s] >= 1
            /\ ncIssued'[s] >= ncIssued[s]
       /\ \A r \in Reqs :
            /\ (req[r].kind = "analyze" /\ req[r].ir # NoResult /\ req[r].ir.isAuditable) =>
                    sessions'[SessionOf(r)] = sessions[SessionOf(r)]
            /\ (req[r].kind = "clarify" /\ Gains(r, "REPORT_COMPLETE")) =>
                    ~sessions'[SessionOf(r)].exists
            /\ (ClarifyGetSession(r) /\ ~sessions[SessionOf(r)].exists) =>
                    /\ req'[r].pc = "done"
                    /\ req'[r].status = 404
                    /\ req'[r].events = <<>>
                    /\ ~sessions'[SessionOf(r)].exists
    ]_vars

\* the session of a promoted clarification is gone and another clarification
\* for its id was answered not-found
C28_Witness ==
    \E r, q \in Reqs :
        /\ r # q
        /\ req[r].pc = "done" /\ req[r].kind = "clarify"
        /\ req[r].events # <<>> /\ LastEvent(r).type = "REPORT_COMPLETE"
        /\ req[q].pc = "done" /\ req[q].kind = "clarify" /\ req[q].status = 404
        /\ SessionOf(r) = SessionOf(q)
        /\ ~sessions[SessionOf(r)].exists
        /\ ncIssued[SessionOf(r)] >= 1

\* C29: the TTL window of a session is fixed when it is created: expiresAt
\* of a stored session never changes.  getSession on a session whose window
\* has elapsed returns null (the request is answered 404) and deletes it.
\* And once the window has elapsed no step changes the document (turnCount,
\* processing, enrichedContext, gaps, usedLenses) other than by deleting it.
C29_ExpiredIsNotFound ==
    [][/\ \A s \in SessionIds :
            /\ (sessions[s].exists /\ sessions'[s].exists) =>
                    sessions'[s].expiresAt = sessions[s].expiresAt
            /\ (sessions[s].exists /\ Expired(sessions[s], now)) =>
                    \/ sessions'[s] = sessions[s]
                    \/ ~sessions'[s].exists
       /\ \A r \in Reqs :
            (/\ ClarifyGetSession(r)
             /\ sessions[SessionOf(r)].exists
             /\ Expired(sessions[SessionOf(r)], now)) =>
                /\ req'[r].pc = "done"
                /\ req'[r].status = 404
                /\ ~sessions'[SessionOf(r)].exists
    ]_vars

\* the event that tells the caller its submission was a duplicate
SaysAlreadyProcessing(event) == event.message = ALREADY_PROCESSING

\* C30: the event with the message 'Request already processing' is written
\* by a clarification exactly when, as its incrementTurn transaction runs, the
\* session is locked by another turn in flight; and that event is of a kind
\* of its own, not the ERROR kind used for failures.
C30_AlreadyProcessingIsDistinct ==
    [][\A r \in Reqs :
        /\ TransactionReturns(r) =>
            ((req'[r].pc = "done" /\ SaysAlreadyProcessing(LastEvent(r)'))
                <=> /\ sessions[SessionOf(r)].exists
                    /\ sessions[SessionOf(r)].processing
                    /\ \E q \in Reqs \ {r} : InFlight(q) /\ SessionOf(q) = SessionOf(r))
        /\ \A i \in DOMAIN req'[r].events :
                SaysAlreadyProcessing(req'[r].events[i]) => req'[r].events[i].type # "ERROR"
    ]_vars

\* the record of id is in the store
Persisted(store, id) == id \in DOMAIN store /\ store[id].exists

\* C31: the fetch of a report is gated.  GET /report/:id and its download
\* route send a body only when a record of the id exists and the token is
\* the last eight characters of the id, and the body is made of that record;
\* with any other token the answer is 403 or 404 and has no body.  The token
\* of the REPORT_COMPLETE event of a stored report is the token of its id,
\* and a fetch with the token of a stored id that the store answers gets the
\* record.
C31_FetchIsGated ==
    [][\A r \in Reqs :
        /\ (req[r].pc = "idle" /\ req'[r].kind = "report") =>
            \A id \in {req'[r].docId}, t \in {req'[r].token}, dl, ok, pdf \in BOOLEAN :
                GetReport(r, id, t, dl, ok, pdf) =>
                    /\ req'[r].events = <<>>
                    /\ req'[r].body # NoBody =>
                            /\ Persisted(reports, id)
                            /\ t = Slice8(id)
                            /\ req'[r].status = 200
                            /\ req'[r].body.id = id
                            /\ req'[r].body.report = reports[id].report
                            /\ req'[r].body.dimensions = reports[id].dimensionScores
                    /\ t # Slice8(id) =>
                            /\ req'[r].body = NoBody
                            /\ req'[r].status \in {403, 404}
                    /\ (Persisted(reports, id) /\ t = Slice8(id) /\ ok) =>
                            IF dl /\ ~pdf
                            THEN req'[r].status = 500
                            ELSE req'[r].status = 200 /\ req'[r].body # NoBody
        /\ (Gains(r, "REPORT_COMPLETE") /\ Persisted(reports', LastEvent(r)'.id)) =>
                LastEvent(r)'.token = Slice8(LastEvent(r)'.id)
    ]_vars

\* a stored report was fetched with the token of its id
C31_Witness ==
    \E r \in Reqs :
        /\ req[r].pc = "done"
        /\ req[r].kind = "report"
        /\ req[r].status = 200
        /\ req[r].body # NoBody
        /\ Persisted(reports, req[r].body.id)
        /\ req[r].body.report = reports[req[r].body.id].report
        /\ req[r].body.report # FAILED_REPORT

\* C32: idScore of every result of evaluateInformationDensity lies in 0..100,
\* on every return path and whatever id_score the provider reports (above
\* 100, negative, zero or missing).
C32_IdScoreInRange ==
    ret # NoResult => (ret.idScore >= 0 /\ ret.idScore <= MAX_SCORE)

\* C33: the context "Grocery store near Koramangala, competing with Reliance
\* Smart, exclusive deal with 3 local farmers" matches all three keyword
\* classes, so its pre-score is 100 and a first evaluation of it returns
\* isAuditable = TRUE with no question and without consulting the provider.
C33_GroceryExampleIsAuditReady ==
    (/\ ret # NoResult
     /\ call.groundedContext = GroceryContext
     /\ call.turnCount = 0
     /\ call.usedLenses = <<>>)
    => /\ scoreContextDeterministically(GroceryContext).score = MAX_SCORE
       /\ ret.isAuditable
       /\ ret.question = ""
       /\ ~ret.providerCalled

\* the covered set of an interrogator call of request r: the lenses its
\* session tracks and the lenses the keywords of the context cover
CoveredAt(r) ==
    Range(scoreContextDeterministically(req[r].context).coveredLenses)
    \cup (IF req[r].kind = "clarify" THEN Range(req[r].turn.usedLenses) ELSE {})

FirstUncovered(covered, lens) ==
    \E i \in DOMAIN LENSES :
        /\ LENSES[i] = lens
        /\ lens \notin covered
        /\ \A j \in 1..(i - 1) : LENSES[j] \in covered

\* C34: whenever the provider is consulted the active lens is the first of
\* CUSTOMER/MARKET, COMPETITOR/MOAT, OPERATIONS/SUPPLY that is not covered; a
\* first submission with pre-score 0 that is not promoted gets one question,
\* asked under the lens CUSTOMER/MARKET, and its session is created with
\* turnCount = 1.
C34_LensRotation ==
    [][\A r \in Reqs :
        /\ (Answered(r) /\ req'[r].ir.providerCalled) =>
                FirstUncovered(CoveredAt(r), req'[r].ir.activeLens)
        /\ (/\ req[r].pc = "a_saveSession"
            /\ scoreContextDeterministically(req[r].context).score = 0
            /\ req'[r].pc = "done"
            /\ ~req'[r].fault) =>
                /\ req[r].ir.question # ""
                /\ req[r].ir.activeLens = LENSES[1]
                /\ req'[r].events[Len(req'[r].events)] = Ev("NEED_CLARIFICATION")
                /\ sessions'[req[r].sessionId].exists
                /\ sessions'[req[r].sessionId].turnCount = 1
                /\ sessions'[req[r].sessionId].gaps = <<req[r].ir.question>>]_vars

\* the interrogation of the request r in flight cleared it for the audit
AuditReady(r) ==
    /\ req[r].pc \notin {"idle", "done"}
    /\ req[r].ir # NoResult
    /\ req[r].ir.isAuditable

\* r ended with REPORT_COMPLETE, which carries the text and the dimensions of
\* the stored record it names
ReportDelivered(r) ==
    /\ req[r].pc = "done"
    /\ req[r].events # <<>>
    /\ LastEvent(r).type = "REPORT_COMPLETE"
    /\ Persisted(reports, LastEvent(r).id)
    /\ reports[LastEvent(r).id].report = LastEvent(r).report
    /\ reports[LastEvent(r).id].dimensionScores = LastEvent(r).dimensions

\* the steps of a request that change the report store create one record
WritesOneRecord(r) ==
    reports' # reports =>
        \E id \in DOMAIN reports :
            /\ ~reports[id].exists
            /\ reports'[id].exists
            /\ \A other \in DOMAIN reports \ {id} : reports'[other] = reports[other]
            /\ \/ Gains(r, "REPORT_COMPLETE") /\ LastEvent(r)'.id = id
               \/ req'[r].pc = "c_deleteSession" /\ req'[r].docId = id

C36_OnlyHolderReleases ==
    [][\A r \in Reqs :
        (req'[r] # req[r] /\ req[r].kind = "clarify" /\ ~InFlight(r)) =>
            \A s \in SessionIds :
                (sessions[s].exists /\ sessions[s].processing) =>
                    ~(sessions'[s].exists /\ ~sessions'[s].processing)]_vars

\* C37: the record saved by a promoted clarification turn has as
\* businessContext the cumulative context (the original context and the
\* clarification of the turn) that the report was generated from.
C37_RecordDescribesWhatWasAnalysed ==
    [][\A r \in Reqs :
        (req[r].pc = "c_persist" /\ req'[r].pc = "c_deleteSession"
            /\ Persisted(reports', req'[r].docId)) =>
                /\ req[r].context = cumulativeContext(req[r].session, req[r].clarification)
                /\ reports'[req'[r].docId].report = req[r].report
                /\ reports'[req'[r].docId].businessContext = req[r].context]_vars

\* C38: in every stress-test result each mitigation card carries the risk
\* delta of its dimension: c.riskDelta = riskDeltas[c.dimension], with the
\* same sign and the same default for a missing baseline.
C38_CardDeltaIsDimensionDelta ==
    \A r \in Reqs :
        StressCompleted(r) =>
            LET result == StressResult(r)
            IN \A i \in DOMAIN result.mitigationCards :
                    LET c == result.mitigationCards[i]
                    IN /\ c.dimension \in DOMAIN result.riskDeltas
                       /\ c.riskDelta = result.riskDeltas[c.dimension]

\* the events that end a stream
TerminalEvents == {"NEED_CLARIFICATION", "REPORT_COMPLETE", "STRESS_COMPLETE", "ERROR"}

\* the positions of the terminal events in a stream
Terminals(events) == {i \in DOMAIN events : events[i].type \in TerminalEvents}

\* C39: every response stream of POST /analyze, /analyze/clarify and
\* /analyze/stress-test has exactly one terminal event, it is the last event
\* and the stream is closed with it: an open stream holds none, a closed one
\* holds it at its end, and a request answered without a stream has no events.
C39_OneTerminalEvent ==
    \A r \in Reqs :
        req[r].kind \in {"analyze", "clarify", "stress"} =>
            /\ req[r].pc # "done" => Terminals(req[r].events) = {}
            /\ (req[r].pc = "done" /\ req[r].status = 200) =>
                    Terminals(req[r].events) = {Len(req[r].events)}
            /\ (req[r].pc = "done" /\ req[r].status # 200) => req[r].events = <<>>

\* a clarification was promoted and its request failed afterwards: the stream
\* ends with ERROR and holds no REPORT_COMPLETE
C39_Witness ==
    \E r \in Reqs :
        /\ req[r].pc = "done"
        /\ req[r].kind = "clarify"
        /\ req[r].fault
        /\ Has(req[r].events, "READY_FOR_AUDIT")
        /\ LastEvent(r).type = "ERROR"
        /\ Terminals(req[r].events) = {Len(req[r].events)}
====
